---- MODULE Spec2Model ----
(***************************************************************************)
(* HAR mock server: the request matcher of src/unnamed/part_003            *)
(* (class ApiMockServer).  Strings are sequences of one-character strings, *)
(* so that normalisation, signature assembly and Map lookup are computed   *)
(* on text, as the code computes them.                                     *)
(***************************************************************************)
EXTENDS Integers, Sequences, FiniteSets, TLC

VARIABLES
  harFile,     \* the file at this.harFilePath
  phase,       \* where init() is: "constructed", "loaded" or "exited"
  harData,     \* this.harData.log.entries, as loadHARFile() read them
  nextIndex,   \* how many entries processHAREntries has been through
  requestMap,  \* this.requestMap: request key -> entry, in insertion order
  apiGroups,   \* this.apiGroups: METHOD:path -> group, in insertion order
  listening,   \* app.listen() has been called
  req,         \* the request being handled
  outcome,     \* matchedEntry, what findMatchingEntry returned for it
  res,         \* the response emitted for it
  clock,       \* the time new Date() reads
  arg,         \* the normalizer on its own: its input
  ret          \* the normalizer on its own: its results

vars == <<harFile, phase, harData, nextIndex, requestMap, apiGroups, listening, req, outcome, res,
          clock, arg, ret>>

serverVars ==
  <<harFile, phase, harData, nextIndex, requestMap, apiGroups, listening, req, outcome,
    res, clock>>

(***************************************************************************)
(* Bounds of the model.                                                    *)
(***************************************************************************)
MaxEntries == 2

MaxPieces == 4

MaxDepth == 2

MaxClock == 1

MaxHeaders == 2

(***************************************************************************)
(* Text: characters, comparison, sorting, splitting.                       *)
(***************************************************************************)

\* UTF-16 code unit of each character of the model's alphabets (the order
\* Array.prototype.sort() compares strings by).
CharCode(c) ==
  CASE c = "\n" -> 10 [] c = " " -> 32 [] c = "\"" -> 34 [] c = "%" -> 37
    [] c = "&" -> 38 [] c = "," -> 44 [] c = "/" -> 47 [] c = "1" -> 49
    [] c = "2" -> 50 [] c = "5" -> 53 [] c = ":" -> 58 [] c = "=" -> 61
    [] c = "?" -> 63 [] c = "E" -> 69 [] c = "G" -> 71 [] c = "O" -> 79
    [] c = "P" -> 80 [] c = "R" -> 82 [] c = "S" -> 83 [] c = "T" -> 84
    [] c = "U" -> 85 [] c = "[" -> 91 [] c = "]" -> 93 [] c = "a" -> 97
    [] c = "b" -> 98 [] c = "d" -> 100 [] c = "e" -> 101 [] c = "g" -> 103
    [] c = "k" -> 107 [] c = "m" -> 109 [] c = "o" -> 111 [] c = "p" -> 112
    [] c = "s" -> 115 [] c = "t" -> 116 [] c = "x" -> 120 [] c = "y" -> 121
    [] c = "{" -> 123 [] c = "}" -> 125
    [] OTHER -> 0

\* s < t in the order of String comparison (code unit by code unit).
LexLess(s, t) ==
  \E i \in 1..Len(t) :
     /\ i <= Len(s) + 1
     /\ \A j \in 1..(i - 1) : s[j] = t[j]
     /\ \/ i = Len(s) + 1
        \/ CharCode(s[i]) < CharCode(t[i])

RECURSIVE InsertSorted(_, _)
InsertSorted(x, sorted) ==
  IF sorted = <<>> THEN <<x>>
  ELSE IF LexLess(x, Head(sorted)) THEN <<x>> \o sorted
  ELSE <<Head(sorted)>> \o InsertSorted(x, Tail(sorted))

\* Array.prototype.sort() with the default comparator, on an array of strings.
RECURSIVE SortStrings(_)
SortStrings(xs) ==
  IF xs = <<>> THEN <<>> ELSE InsertSorted(Head(xs), SortStrings(Tail(xs)))

\* String.prototype.split(sep) for a one-character separator.
RECURSIVE SplitOn(_, _)
SplitOn(s, sep) ==
  IF \A i \in 1..Len(s) : s[i] # sep THEN <<s>>
  ELSE LET i == CHOOSE n \in 1..Len(s) :
                   s[n] = sep /\ \A j \in 1..(n - 1) : s[j] # sep
       IN <<SubSeq(s, 1, i - 1)>> \o SplitOn(SubSeq(s, i + 1, Len(s)), sep)

\* Array.prototype.join(sep).
RECURSIVE JoinWith(_, _)
JoinWith(xs, sep) ==
  IF xs = <<>> THEN <<>>
  ELSE IF Len(xs) = 1 THEN xs[1]
  ELSE xs[1] \o <<sep>> \o JoinWith(Tail(xs), sep)

IsSpace(c) == c \in {" ", "\n"}

\* String.prototype.trim().
RECURSIVE TrimLeft(_)
TrimLeft(s) == IF s # <<>> /\ IsSpace(Head(s)) THEN TrimLeft(Tail(s)) ELSE s

RECURSIVE TrimRight(_)
TrimRight(s) ==
  IF s # <<>> /\ IsSpace(s[Len(s)]) THEN TrimRight(SubSeq(s, 1, Len(s) - 1)) ELSE s

Trim(s) == TrimRight(TrimLeft(s))

\* s.replace(/\s+/g, ' '): every run of whitespace becomes one space.
RECURSIVE CollapseSpaces(_)
CollapseSpaces(s) ==
  IF s = <<>> THEN <<>>
  ELSE IF IsSpace(Head(s))
       THEN <<" ">> \o CollapseSpaces(TrimLeft(s))
       ELSE <<Head(s)>> \o CollapseSpaces(Tail(s))

\* String.prototype.toUpperCase(), character by character.
UpperChar(c) ==
  CASE c = "g" -> "G" [] c = "e" -> "E" [] c = "t" -> "T" [] c = "p" -> "P"
    [] c = "o" -> "O" [] c = "s" -> "S" [] OTHER -> c

toUpperCase(s) == [i \in 1..Len(s) |-> UpperChar(s[i])]

(***************************************************************************)
(* Percent-decoding (decodeURIComponent, querystring.unescape).  The hex   *)
(* digits of the query alphabet are 2, 5 and 6; the table below decodes    *)
(* every pair of them.                                                     *)
(***************************************************************************)
IsHexDigit(c) == c \in {"2", "5", "6"}

HexPair(h, l) ==
  CASE h = "2" /\ l = "2" -> "\""
    [] h = "2" /\ l = "5" -> "%"
    [] h = "2" /\ l = "6" -> "&"
    [] h = "5" /\ l = "2" -> "R"
    [] h = "5" /\ l = "5" -> "U"
    [] h = "5" /\ l = "6" -> "V"
    [] h = "6" /\ l = "2" -> "b"
    [] h = "6" /\ l = "5" -> "e"
    [] h = "6" /\ l = "6" -> "f"

\* A '%' at position i that two hex digits follow.
IsEscapeAt(s, i) ==
  /\ s[i] = "%"
  /\ i + 2 <= Len(s)
  /\ IsHexDigit(s[i + 1])
  /\ IsHexDigit(s[i + 2])

\* decodeURIComponent throws URIError on a '%' that no two hex digits follow.
RECURSIVE MalformedURI(_)
MalformedURI(s) ==
  IF s = <<>> THEN FALSE
  ELSE IF Head(s) = "%"
       THEN IF IsEscapeAt(s, 1) THEN MalformedURI(SubSeq(s, 4, Len(s))) ELSE TRUE
       ELSE MalformedURI(Tail(s))

\* Every valid %XX becomes its character; a stray '%' stays (unescapeBuffer).
RECURSIVE unescapeBuffer(_)
unescapeBuffer(s) ==
  IF s = <<>> THEN <<>>
  ELSE IF IsEscapeAt(s, 1)
       THEN <<HexPair(s[2], s[3])>> \o unescapeBuffer(SubSeq(s, 4, Len(s)))
       ELSE <<Head(s)>> \o unescapeBuffer(Tail(s))

\* decodeURIComponent(s) where it does not throw.
decodeURIComponent(s) == unescapeBuffer(s)

\* querystring.unescape: decodeURIComponent, and unescapeBuffer when it throws.
qsUnescape(s) == IF MalformedURI(s) THEN unescapeBuffer(s) ELSE decodeURIComponent(s)

\* querystring.parse(qs): the (name, value) pairs in order of appearance.  An
\* empty fragment is skipped; the name ends at the first '='; both are unescaped.
PairOf(f, name) ==
  [name |-> qsUnescape(name),
   value |-> qsUnescape(IF Len(name) = Len(f) THEN <<>>
                        ELSE SubSeq(f, Len(name) + 2, Len(f)))]

RECURSIVE ParsePairs(_)
ParsePairs(frags) ==
  IF frags = <<>> THEN <<>>
  ELSE IF Head(frags) = <<>> THEN ParsePairs(Tail(frags))
  ELSE <<PairOf(Head(frags), SplitOn(Head(frags), "=")[1])>> \o ParsePairs(Tail(frags))

querystringParse(qs) == IF qs = <<>> THEN <<>> ELSE ParsePairs(SplitOn(qs, "&"))

(***************************************************************************)
(* Key Normalizer: sortQueryString, fallbackSortQuery.                     *)
(***************************************************************************)

\* Object.keys(params): each parameter name once.
AddName(name, names) ==
  IF \E i \in 1..Len(names) : names[i] = name THEN names ELSE <<name>> \o names

RECURSIVE ParamNames(_)
ParamNames(pairs) ==
  IF pairs = <<>> THEN <<>> ELSE AddName(Head(pairs).name, ParamNames(Tail(pairs)))

\* params[key]: the values recorded under one name, in order of appearance.
RECURSIVE ParamValues(_, _)
ParamValues(pairs, key) ==
  IF pairs = <<>> THEN <<>>
  ELSE IF Head(pairs).name = key
       THEN <<Head(pairs).value>> \o ParamValues(Tail(pairs), key)
       ELSE ParamValues(Tail(pairs), key)

\* value.sort().forEach(v => sortedParams.push(`${key}=${v || ''}`))
RECURSIVE EmitPairs(_, _)
EmitPairs(key, values) ==
  IF values = <<>> THEN <<>>
  ELSE <<key \o <<"=">> \o Head(values)>> \o EmitPairs(key, Tail(values))

\* EmitKeys without value.sort(): the values in order of appearance.
RECURSIVE EmitKeysInOrder(_, _)
EmitKeysInOrder(keys, pairs) ==
  IF keys = <<>> THEN <<>>
  ELSE EmitPairs(Head(keys), ParamValues(pairs, Head(keys)))
       \o EmitKeysInOrder(Tail(keys), pairs)

RECURSIVE EmitKeys(_, _)
EmitKeys(keys, pairs) ==
  IF keys = <<>> THEN <<>>
  ELSE EmitPairs(Head(keys), SortStrings(ParamValues(pairs, Head(keys))))
       \o EmitKeys(Tail(keys), pairs)

\* Removes the empty fragments (filter(param => param.length > 0)).
RECURSIVE NonEmpty(_)
NonEmpty(xs) ==
  IF xs = <<>> THEN <<>>
  ELSE IF Head(xs) = <<>> THEN NonEmpty(Tail(xs))
  ELSE <<Head(xs)>> \o NonEmpty(Tail(xs))

\* map(param => param.trim())
TrimAll(frags) == [i \in 1..Len(frags) |-> Trim(frags[i])]

fallbackSortQuery(query) ==
  IF query = <<>> THEN <<>>
  ELSE JoinWith(SortStrings(NonEmpty(TrimAll(SplitOn(query, "&")))), "&")

\* Object.keys(params).sort().forEach(...), then sortedParams.join('&').
EmitSorted(params) == JoinWith(EmitKeys(SortStrings(ParamNames(params)), params), "&")

sortQueryString(query) ==
  IF query = <<>> THEN <<>>
  ELSE IF MalformedURI(query) THEN fallbackSortQuery(query)
  ELSE EmitSorted(querystringParse(decodeURIComponent(query)))

(***************************************************************************)
(* JSON text: JSON.parse and JSON.stringify on the model's body alphabet   *)
(* (objects, arrays, strings without escapes, integers without a leading   *)
(* zero, null).  "null" is one token of the text.                          *)
(***************************************************************************)
JNull == [t |-> "null", s |-> <<>>, kids |-> <<>>]

JNum(digits) == [t |-> "num", s |-> digits, kids |-> <<>>]

JStr(chars) == [t |-> "str", s |-> chars, kids |-> <<>>]

\* kids of an array: its elements, in order.
JArr(items) == [t |-> "arr", s |-> <<>>, kids |-> items]

\* kids of an object: its members as <<key, value>>, in property order.
JObj(members) == [t |-> "obj", s |-> <<>>, kids |-> members]

ParseFail == [ok |-> FALSE, v |-> JNull, rest |-> <<>>]

IsDigit(c) == c \in {"1", "2", "5"}

\* The longest prefix of s made of digits.
RECURSIVE DigitRun(_)
DigitRun(s) ==
  IF s # <<>> /\ IsDigit(Head(s)) THEN <<Head(s)>> \o DigitRun(Tail(s)) ELSE <<>>

\* obj[key] = val: a repeated key keeps its first position and takes the last value.
SetMember(members, key, val) ==
  IF \E i \in 1..Len(members) : members[i][1] = key
  THEN [i \in 1..Len(members) |->
          IF members[i][1] = key THEN <<key, val>> ELSE members[i]]
  ELSE Append(members, <<key, val>>)

Parsed(v, rest) == [ok |-> TRUE, v |-> v, rest |-> rest]

\* s starts right after the opening quote, n is the place of the closing one.  A
\* raw line break inside a string is a syntax error.
StringUpTo(s, n) ==
  IF \E i \in 1..(n - 1) : s[i] = "\n" THEN ParseFail
  ELSE Parsed(JStr(SubSeq(s, 1, n - 1)), SubSeq(s, n + 1, Len(s)))

ParseString(s) ==
  IF \A i \in 1..Len(s) : s[i] # "\"" THEN ParseFail
  ELSE StringUpTo(s, CHOOSE i \in 1..Len(s) :
                          s[i] = "\"" /\ \A j \in 1..(i - 1) : s[j] # "\"")

ParseNumber(s, digits) == Parsed(JNum(digits), SubSeq(s, Len(digits) + 1, Len(s)))

RECURSIVE ParseValue(_), ParseElements(_, _), ParseMembers(_, _)

\* r is the text after an element, items the elements so far.
ElementSep(r, items) ==
  IF r = <<>> THEN ParseFail
  ELSE IF Head(r) = "]" THEN Parsed(JArr(items), Tail(r))
  ELSE IF Head(r) = "," THEN ParseElements(Tail(r), items)
  ELSE ParseFail

AfterElement(e, acc) ==
  IF ~e.ok THEN ParseFail ELSE ElementSep(TrimLeft(e.rest), Append(acc, e.v))

\* s starts at an element; acc holds the elements before it.
ParseElements(s, acc) == AfterElement(ParseValue(s), acc)

\* r is the text after a member, members the members so far.
MemberSep(r, members) ==
  IF r = <<>> THEN ParseFail
  ELSE IF Head(r) = "}" THEN Parsed(JObj(members), Tail(r))
  ELSE IF Head(r) = "," THEN ParseMembers(Tail(r), members)
  ELSE ParseFail

AfterMember(key, e, acc) ==
  IF ~e.ok THEN ParseFail ELSE MemberSep(TrimLeft(e.rest), SetMember(acc, key, e.v))

MemberColon(key, s, acc) ==
  IF s = <<>> \/ Head(s) # ":" THEN ParseFail
  ELSE AfterMember(key, ParseValue(Tail(s)), acc)

AfterKey(k, acc) ==
  IF ~k.ok THEN ParseFail ELSE MemberColon(k.v.s, TrimLeft(k.rest), acc)

MemberKey(s, acc) ==
  IF s = <<>> \/ Head(s) # "\"" THEN ParseFail ELSE AfterKey(ParseString(Tail(s)), acc)

\* s starts at a member; acc holds the members before it.
ParseMembers(s, acc) == MemberKey(TrimLeft(s), acc)

\* r is the text after '[' with its leading whitespace removed.
ArrayBody(r) ==
  IF r # <<>> /\ Head(r) = "]" THEN Parsed(JArr(<<>>), Tail(r))
  ELSE ParseElements(r, <<>>)

\* r is the text after '{' with its leading whitespace removed.
ObjectBody(r) ==
  IF r # <<>> /\ Head(r) = "}" THEN Parsed(JObj(<<>>), Tail(r))
  ELSE ParseMembers(r, <<>>)

\* s has no leading whitespace.
ValueAt(s) ==
  IF s = <<>> THEN ParseFail
  ELSE IF Head(s) = "null" THEN Parsed(JNull, Tail(s))
  ELSE IF IsDigit(Head(s)) THEN ParseNumber(s, DigitRun(s))
  ELSE IF Head(s) = "\"" THEN ParseString(Tail(s))
  ELSE IF Head(s) = "[" THEN ArrayBody(TrimLeft(Tail(s)))
  ELSE IF Head(s) = "{" THEN ObjectBody(TrimLeft(Tail(s)))
  ELSE ParseFail

ParseValue(s) == ValueAt(TrimLeft(s))

\* Only whitespace may follow the value.
Complete(e) ==
  IF e.ok /\ TrimLeft(e.rest) = <<>> THEN [ok |-> TRUE, v |-> e.v]
  ELSE [ok |-> FALSE, v |-> JNull]

\* JSON.parse(text): ok is FALSE where it throws SyntaxError.
JSONParse(text) == Complete(ParseValue(text))

RECURSIVE JSONStringify(_), StringifyItems(_), StringifyMembers(_)

StringifyItems(items) ==
  IF items = <<>> THEN <<>>
  ELSE JSONStringify(Head(items))
       \o (IF Len(items) > 1 THEN <<",">> ELSE <<>>)
       \o StringifyItems(Tail(items))

StringifyMembers(members) ==
  IF members = <<>> THEN <<>>
  ELSE <<"\"">> \o Head(members)[1] \o <<"\"", ":">> \o JSONStringify(Head(members)[2])
       \o (IF Len(members) > 1 THEN <<",">> ELSE <<>>)
       \o StringifyMembers(Tail(members))

\* JSON.stringify(v), compact.
JSONStringify(v) ==
  CASE v.t = "null" -> <<"null">>
    [] v.t = "num" -> v.s
    [] v.t = "str" -> <<"\"">> \o v.s \o <<"\"">>
    [] v.t = "arr" -> <<"[">> \o StringifyItems(v.kids) \o <<"]">>
    [] v.t = "obj" -> <<"{">> \o StringifyMembers(v.kids) \o <<"}">>

(***************************************************************************)
(* Key Normalizer: sortObjectKeys, normalizeJson, generateRequestKey.      *)
(***************************************************************************)
MemberValue(members, key) ==
  members[CHOOSE i \in 1..Len(members) : members[i][1] = key][2]

\* Object.keys(obj)
ObjectKeys(members) == [i \in 1..Len(members) |-> members[i][1]]

RECURSIVE sortObjectKeys(_)

\* sortedObj: the members under the sorted keys, each value sorted in turn.
SortedObject(members, keys) ==
  JObj([i \in 1..Len(keys) |-> <<keys[i], sortObjectKeys(MemberValue(members, keys[i]))>>])

sortObjectKeys(obj) ==
  IF obj.t = "arr"
  THEN JArr([i \in 1..Len(obj.kids) |-> sortObjectKeys(obj.kids[i])])
  ELSE IF obj.t = "obj"
  THEN SortedObject(obj.kids, SortStrings(ObjectKeys(obj.kids)))
  ELSE obj

\* JSON.stringify(this.sortObjectKeys(obj))
Canonical(v) == JSONStringify(sortObjectKeys(v))

\* The catch branch's second attempt; the text unchanged when it fails too.
NormalizeCleaned(jsonString, second) ==
  IF second.ok THEN Canonical(second.v) ELSE jsonString

NormalizeParsed(jsonString, first) ==
  IF first.ok THEN Canonical(first.v)
  ELSE NormalizeCleaned(jsonString, JSONParse(Trim(CollapseSpaces(jsonString))))

normalizeJson(jsonString) ==
  IF jsonString = <<>> THEN jsonString
  ELSE NormalizeParsed(jsonString, JSONParse(jsonString))

\* postData is NoPostData (null, undefined) or [has |-> TRUE, text |-> ...]; an
\* absent text is the empty text.
NoPostData == [has |-> FALSE, text |-> <<>>]

PostData(text) == [has |-> TRUE, text |-> text]

BodyMark == <<":", "b", "o", "d", "y", ":">>

\* The body part of the key: the normalized JSON when normalizeJson changed the
\* text, else the text with its whitespace collapsed.
BodyPart(text, normalizedBody) ==
  IF normalizedBody # text THEN BodyMark \o normalizedBody
  ELSE BodyMark \o Trim(CollapseSpaces(text))

generateRequestKey(method, path, queryString, postData) ==
  toUpperCase(method) \o <<":">> \o path
  \o (IF queryString # <<>> THEN <<"?">> \o sortQueryString(queryString) ELSE <<>>)
  \o (IF postData.has /\ postData.text # <<>> /\ Trim(postData.text) # <<>>
      THEN BodyPart(postData.text, normalizeJson(postData.text))
      ELSE <<>>)

(***************************************************************************)
(* Archive Loader and Signature Index: processHAREntries.                  *)
(***************************************************************************)
Origin == "http://h"

\* new URL(url): throws TypeError unless the text starts with an origin.
\* rest is the URL after its origin, pathname its part before the first '?'.
\* An empty path reads "/"; an empty query reads "".
UrlParts(rest, pathname) ==
  [ok |-> TRUE,
   pathname |-> IF pathname = <<>> THEN <<"/">> ELSE pathname,
   search |-> IF Len(pathname) + 1 >= Len(rest) THEN <<>>
              ELSE SubSeq(rest, Len(pathname) + 1, Len(rest))]

URLParse(url) ==
  IF url = <<>> \/ Head(url) # Origin
  THEN [ok |-> FALSE, pathname |-> <<>>, search |-> <<>>]
  ELSE UrlParts(Tail(url), SplitOn(Tail(url), "?")[1])

\* String.prototype.slice(1).
Slice1(s) == IF s = <<>> THEN <<>> ELSE Tail(s)

\* Map.prototype.has / get / set on a Map kept as its entries in insertion order.
MapHas(map, key) == \E i \in 1..Len(map) : map[i].key = key

MapGet(map, key) == map[CHOOSE i \in 1..Len(map) : map[i].key = key].value

\* MapSet that keeps the first value written under a key.
MapSetKeepFirst(map, key, value) ==
  IF \E i \in 1..Len(map) : map[i].key = key THEN map
  ELSE Append(map, [key |-> key, value |-> value])

MapSet(map, key, value) ==
  IF MapHas(map, key)
  THEN [i \in 1..Len(map) |->
          IF map[i].key = key THEN [key |-> key, value |-> value] ELSE map[i]]
  ELSE Append(map, [key |-> key, value |-> value])

\* The value stored under the request key.
MapValue(entry, index, basePath, rawQueryParams, normalizedQueryParams) ==
  [request |-> entry.request, response |-> entry.response, index |-> index,
   path |-> basePath, method |-> entry.request.method,
   queryParams |-> rawQueryParams,
   normalizedQueryParams |-> normalizedQueryParams]

\* The variant appended to the entry's method+path group.
Variant(entry, index, rawQueryParams, normalizedQueryParams, requestKey) ==
  [queryParams |-> rawQueryParams, normalizedQueryParams |-> normalizedQueryParams,
   postData |-> entry.request.postData, response |-> entry.response,
   requestKey |-> requestKey, index |-> index]

\* GroupsWith that puts the new variant in front of the group's variants.
GroupsWithNewestFirst(groups, apiKey, method, basePath, variant) ==
  IF \E i \in 1..Len(groups) : groups[i].key = apiKey
  THEN [i \in 1..Len(groups) |->
          IF groups[i].key = apiKey
          THEN [key |-> apiKey,
                value |-> [groups[i].value EXCEPT !.variants = <<variant>> \o @]]
          ELSE groups[i]]
  ELSE Append(groups, [key |-> apiKey,
                       value |-> [method |-> method, path |-> basePath,
                                  variants |-> <<variant>>]])

\* apiGroups with the variant pushed on the group of apiKey, created if absent.
GroupsWith(groups, apiKey, method, basePath, variant) ==
  IF MapHas(groups, apiKey)
  THEN MapSet(groups, apiKey,
              [MapGet(groups, apiKey) EXCEPT !.variants = Append(@, variant)])
  ELSE MapSet(groups, apiKey,
              [method |-> method, path |-> basePath, variants |-> <<variant>>])

\* The body of the forEach callback once the URL has parsed.
StoreEntry(entry, index, basePath, rawQueryParams, normalizedQueryParams, requestKey) ==
  /\ requestMap' = MapSet(requestMap, requestKey,
                          MapValue(entry, index, basePath, rawQueryParams,
                                   normalizedQueryParams))
  /\ apiGroups' = GroupsWith(apiGroups, entry.request.method \o <<":">> \o basePath,
                             entry.request.method, basePath,
                             Variant(entry, index, rawQueryParams,
                                     normalizedQueryParams, requestKey))

\* KeyEntry with a key that leaves the recorded body out.
KeyEntryWithoutBody(entry, index, basePath, rawQueryParams, normalizedQueryParams) ==
  StoreEntry(entry, index, basePath, rawQueryParams, normalizedQueryParams,
             generateRequestKey(entry.request.method, basePath,
                                normalizedQueryParams, NoPostData))

KeyEntry(entry, index, basePath, rawQueryParams, normalizedQueryParams) ==
  StoreEntry(entry, index, basePath, rawQueryParams, normalizedQueryParams,
             generateRequestKey(entry.request.method, basePath,
                                normalizedQueryParams, entry.request.postData))

NormalizeEntry(entry, index, basePath, rawQueryParams) ==
  KeyEntry(entry, index, basePath, rawQueryParams, sortQueryString(rawQueryParams))

\* ProcessEntry without the try/catch around new URL(): the entry is registered
\* with whatever path and query were read.
ProcessEntryUnchecked(entry, index, parsedUrl) ==
  NormalizeEntry(entry, index, parsedUrl.pathname, Slice1(parsedUrl.search))

\* new URL(request.url) throws on an unparsable URL: the catch logs a warning
\* and the entry is skipped.
ProcessEntry(entry, index, parsedUrl) ==
  IF parsedUrl.ok
  THEN NormalizeEntry(entry, index, parsedUrl.pathname, Slice1(parsedUrl.search))
  ELSE UNCHANGED <<requestMap, apiGroups>>

\* loadHARFile(): existsSync, readFileSync and JSON.parse, then the check of
\* log and log.entries.  Every failure is rethrown as "Failed to load HAR file".
LoadFails(file) ==
  \/ ~file.exists
  \/ ~file.parses
  \/ ~file.hasLog
  \/ ~file.hasEntries

\* loadHARFile that takes a log without entries for an empty archive.
loadHARFileLenient ==
  /\ phase = "constructed"
  /\ IF ~harFile.exists \/ ~harFile.parses \/ ~harFile.hasLog
     THEN /\ phase' = "exited"
          /\ UNCHANGED harData
     ELSE /\ phase' = "loaded"
          /\ harData' = harFile.entries
  /\ UNCHANGED <<harFile, nextIndex, requestMap, apiGroups, listening, req, outcome, res,
                 clock, arg, ret>>

\* init() up to loadHARFile(): the catch of init() logs the error and calls
\* process.exit(1).
loadHARFile ==
  /\ phase = "constructed"
  /\ IF LoadFails(harFile)
     THEN /\ phase' = "exited"
          /\ UNCHANGED harData
     ELSE /\ phase' = "loaded"
          /\ harData' = harFile.entries
  /\ UNCHANGED <<harFile, nextIndex, requestMap, apiGroups, listening, req, outcome, res,
                 clock, arg, ret>>

\* One iteration of harData.log.entries.forEach.
RegisterEntry ==
  /\ phase = "loaded"
  /\ ~listening
  /\ nextIndex < Len(harData)
  /\ ProcessEntry(harData[nextIndex + 1], nextIndex,
                  URLParse(harData[nextIndex + 1].request.url))
  /\ nextIndex' = nextIndex + 1
  /\ UNCHANGED <<harFile, phase, harData, listening, req, outcome, res, clock, arg, ret>>

\* startServer that does not wait for processHAREntries to return.
startServerEarly ==
  /\ phase = "loaded"
  /\ ~listening
  /\ \/ listening' = TRUE /\ UNCHANGED phase
     \/ phase' = "exited" /\ UNCHANGED listening
  /\ UNCHANGED <<harFile, harData, nextIndex, requestMap, apiGroups, req, outcome, res,
                 clock, arg, ret>>

\* init(): startServer() runs after processHAREntries() has returned.  If
\* app.listen() fails (the port is in use), the 'error' handler exits.
startServer ==
  /\ phase = "loaded"
  /\ ~listening
  /\ nextIndex = Len(harData)
  /\ \/ listening' = TRUE /\ UNCHANGED phase
     \/ phase' = "exited" /\ UNCHANGED listening
  /\ UNCHANGED <<harFile, harData, nextIndex, requestMap, apiGroups, req, outcome, res,
                 clock, arg, ret>>

(***************************************************************************)
(* Matcher: findMatchingEntry, checkPathExists.                            *)
(***************************************************************************)
checkPathExists(method, pathname) == MapHas(apiGroups, method \o <<":">> \o pathname)

NoEntry == [index |-> -1]

\* What findMatchingEntry returns: a value of requestMap (whose isPathExists is
\* undefined, falsy) or the object { isPathExists }.
Found(entry) == [isEntry |-> TRUE, entry |-> entry, isPathExists |-> FALSE]

Sentinel(exists) == [isEntry |-> FALSE, entry |-> NoEntry, isPathExists |-> exists]

\* bodyText is [has |-> FALSE] for null, else the text; an empty text is falsy.
NoBodyText == [has |-> FALSE, text |-> <<>>]

BodyText(text) == [has |-> TRUE, text |-> text]

\* Strategy 2 and the final answer: the key without body, else { isPathExists }.
LookupWithoutBody(requestKey, method, pathname) ==
  IF MapHas(requestMap, requestKey) THEN Found(MapGet(requestMap, requestKey))
  ELSE Sentinel(checkPathExists(method, pathname))

ExactWithoutBody(method, pathname, queryString) ==
  LookupWithoutBody(generateRequestKey(method, pathname, queryString, NoPostData),
                    method, pathname)

\* Strategy 1: the key with body.
LookupWithBody(requestKey, method, pathname, queryString) ==
  IF MapHas(requestMap, requestKey) THEN Found(MapGet(requestMap, requestKey))
  ELSE ExactWithoutBody(method, pathname, queryString)

\* findMatchingEntry with the fallbacks of the older server (the class
\* ApiMockServer of src/api-mock-server.js, strategies 3 and 4): the key without
\* query, then the first variant of the method+path group.
FirstVariantOrSentinel(method, pathname) ==
  IF checkPathExists(method, pathname)
  THEN Found(MapGet(requestMap,
                    MapGet(apiGroups, method \o <<":">> \o pathname).variants[1].requestKey))
  ELSE Sentinel(FALSE)

findMatchingEntryWithFallbacks(method, pathname, queryString, bodyText) ==
  IF bodyText.has /\ bodyText.text # <<>>
     /\ MapHas(requestMap, generateRequestKey(method, pathname, queryString,
                                              PostData(bodyText.text)))
  THEN Found(MapGet(requestMap, generateRequestKey(method, pathname, queryString,
                                                   PostData(bodyText.text))))
  ELSE IF MapHas(requestMap, generateRequestKey(method, pathname, queryString, NoPostData))
  THEN Found(MapGet(requestMap,
                    generateRequestKey(method, pathname, queryString, NoPostData)))
  ELSE IF MapHas(requestMap, generateRequestKey(method, pathname, <<>>, NoPostData))
  THEN Found(MapGet(requestMap, generateRequestKey(method, pathname, <<>>, NoPostData)))
  ELSE FirstVariantOrSentinel(method, pathname)

\* findMatchingEntry that, when both lookups miss, answers with the first
\* recorded variant of the method+path group (strategy 4 of the older server).
findMatchingEntryFirstVariant(method, pathname, queryString, bodyText) ==
  IF bodyText.has /\ bodyText.text # <<>>
     /\ MapHas(requestMap, generateRequestKey(method, pathname, queryString,
                                              PostData(bodyText.text)))
  THEN Found(MapGet(requestMap, generateRequestKey(method, pathname, queryString,
                                                   PostData(bodyText.text))))
  ELSE IF MapHas(requestMap, generateRequestKey(method, pathname, queryString, NoPostData))
  THEN Found(MapGet(requestMap,
                    generateRequestKey(method, pathname, queryString, NoPostData)))
  ELSE FirstVariantOrSentinel(method, pathname)

\* findMatchingEntry that tries the key without body before the key with body.
findMatchingEntryBodyLast(method, pathname, queryString, bodyText) ==
  IF MapHas(requestMap, generateRequestKey(method, pathname, queryString, NoPostData))
  THEN Found(MapGet(requestMap,
                    generateRequestKey(method, pathname, queryString, NoPostData)))
  ELSE IF bodyText.has /\ bodyText.text # <<>>
  THEN LookupWithoutBody(generateRequestKey(method, pathname, queryString,
                                            PostData(bodyText.text)),
                         method, pathname)
  ELSE Sentinel(checkPathExists(method, pathname))

findMatchingEntry(method, pathname, queryString, bodyText) ==
  IF bodyText.has /\ bodyText.text # <<>>
  THEN LookupWithBody(generateRequestKey(method, pathname, queryString,
                                         PostData(bodyText.text)),
                      method, pathname, queryString)
  ELSE ExactWithoutBody(method, pathname, queryString)

(***************************************************************************)
(* Responder: sendMockedResponse, sendDefaultResponse, handleNotFound.     *)
(***************************************************************************)
MaxEndpoints == 10

\* The first MaxEndpoints entries of requestMap, in insertion order.
getAvailableEndpoints ==
  [i \in 1..(IF Len(requestMap) < MaxEndpoints THEN Len(requestMap) ELSE MaxEndpoints) |->
     [method |-> requestMap[i].value.method, path |-> requestMap[i].value.path,
      key |-> requestMap[i].key]]

\* String.prototype.toLowerCase() on header names (ASCII letters).
LowerChar(c) ==
  CASE c = "A" -> "a" [] c = "B" -> "b" [] c = "C" -> "c" [] c = "D" -> "d"
    [] c = "E" -> "e" [] c = "F" -> "f" [] c = "G" -> "g" [] c = "H" -> "h"
    [] c = "I" -> "i" [] c = "J" -> "j" [] c = "K" -> "k" [] c = "L" -> "l"
    [] c = "M" -> "m" [] c = "N" -> "n" [] c = "O" -> "o" [] c = "P" -> "p"
    [] c = "Q" -> "q" [] c = "R" -> "r" [] c = "S" -> "s" [] c = "T" -> "t"
    [] c = "U" -> "u" [] c = "V" -> "v" [] c = "W" -> "w" [] c = "X" -> "x"
    [] c = "Y" -> "y" [] c = "Z" -> "z"
    [] OTHER -> c

toLowerCase(s) == [i \in 1..Len(s) |-> LowerChar(s[i])]

\* The headers of the live response, in the order they were first set: Node
\* keeps one value per lower-cased name and setHeader replaces it.
HeaderHas(headers, field) ==
  \E i \in 1..Len(headers) : headers[i].name = toLowerCase(field)

HeaderGet(headers, field) ==
  headers[CHOOSE i \in 1..Len(headers) : headers[i].name = toLowerCase(field)].value

HeaderPut(headers, field, value) ==
  IF HeaderHas(headers, field)
  THEN [i \in 1..Len(headers) |->
          IF headers[i].name = toLowerCase(field)
          THEN [name |-> toLowerCase(field), value |-> value] ELSE headers[i]]
  ELSE Append(headers, [name |-> toLowerCase(field), value |-> value])

\* setHeader throws ERR_INVALID_HTTP_TOKEN unless the name is a token: here
\* letters, digits and '-' (':' is the character of the alphabet that is not).
IsTokenChar(c) == c # ":" /\ c # " "

ValidHeaderName(field) ==
  field # <<>> /\ \A i \in 1..Len(field) : IsTokenChar(field[i])

\* try { res.set(header.name, header.value) } catch { warn }
TrySet(headers, header) ==
  IF ValidHeaderName(header.name)
  THEN HeaderPut(headers, header.name, header.value)
  ELSE headers

skipHeaders ==
  << <<"c", "o", "n", "t", "e", "n", "t", "-", "e", "n", "c", "o", "d", "i", "n", "g">>,
     <<"c", "o", "n", "t", "e", "n", "t", "-", "l", "e", "n", "g", "t", "h">>,
     <<"t", "r", "a", "n", "s", "f", "e", "r", "-", "e", "n", "c", "o", "d", "i", "n", "g">>,
     <<"c", "o", "n", "n", "e", "c", "t", "i", "o", "n">>,
     <<"u", "p", "g", "r", "a", "d", "e">>,
     <<"h", "o", "s", "t">>,
     <<"o", "r", "i", "g", "i", "n">>,
     <<"r", "e", "f", "e", "r", "e", "r">> >>

Includes(array, x) == \E i \in 1..Len(array) : array[i] = x

\* CopyHeaders whose loop ends at the first header that res.set refuses.
RECURSIVE CopyHeadersUntilFailure(_, _)
CopyHeadersUntilFailure(headers, recorded) ==
  IF recorded = <<>> THEN headers
  ELSE IF Includes(skipHeaders, toLowerCase(Head(recorded).name))
  THEN CopyHeadersUntilFailure(headers, Tail(recorded))
  ELSE IF ValidHeaderName(Head(recorded).name)
  THEN CopyHeadersUntilFailure(HeaderPut(headers, Head(recorded).name,
                                         Head(recorded).value),
                               Tail(recorded))
  ELSE headers

\* harResponse.headers.forEach: every header not in skipHeaders is set.
RECURSIVE CopyHeaders(_, _)
CopyHeaders(headers, recorded) ==
  IF recorded = <<>> THEN headers
  ELSE CopyHeaders(IF Includes(skipHeaders, toLowerCase(Head(recorded).name))
                   THEN headers
                   ELSE TrySet(headers, Head(recorded)),
                   Tail(recorded))

AccessControlAllowOrigin ==
  <<"A", "c", "c", "e", "s", "s", "-", "C", "o", "n", "t", "r", "o", "l", "-", "A", "l", "l", "o", "w", "-", "O", "r", "i", "g", "i", "n">>

ContentType == <<"C", "o", "n", "t", "e", "n", "t", "-", "T", "y", "p", "e">>

Wildcard == <<"*">>

\* The CORS middleware of setupMiddleware has run before the handler; of its
\* four headers the model keeps the one sendMockedResponse reads.
MiddlewareHeaders ==
  << [name |-> toLowerCase(AccessControlAllowOrigin), value |-> Wildcard] >>

\* if (!res.get('Access-Control-Allow-Origin')) res.set(..., '*')
EnsureCors(headers) ==
  IF HeaderHas(headers, AccessControlAllowOrigin)
     /\ HeaderGet(headers, AccessControlAllowOrigin) # <<>>
  THEN headers
  ELSE HeaderPut(headers, AccessControlAllowOrigin, Wildcard)

\* getContentType: the value of the first recorded content-type header, or null.
NoContentType == [has |-> FALSE, value |-> <<>>]

FirstContentType(recorded) ==
  recorded[CHOOSE i \in 1..Len(recorded) :
             /\ toLowerCase(recorded[i].name) = toLowerCase(ContentType)
             /\ \A j \in 1..(i - 1) :
                  toLowerCase(recorded[j].name) # toLowerCase(ContentType)].value

getContentType(harResponse) ==
  IF \E i \in 1..Len(harResponse.headers) :
        toLowerCase(harResponse.headers[i].name) = toLowerCase(ContentType)
  THEN [has |-> TRUE, value |-> FirstContentType(harResponse.headers)]
  ELSE NoContentType

\* A header value is a sequence of tokens; application/json is one of them, so
\* contentType.includes('application/json') is membership of that token.
ApplicationJson == "application/json"

IsJsonType(contentType) ==
  /\ contentType.has
  /\ contentType.value # <<>>
  /\ \E i \in 1..Len(contentType.value) : contentType.value[i] = ApplicationJson

\* How the body went out: res.json(value), res.send(text) or res.end().
SentJson(parsed) == [sent |-> "json", body |-> JSONStringify(parsed.v)]

SentText(text) == [sent |-> "send", body |-> text]

SentNothing == [sent |-> "end", body |-> <<>>]

\* res.json of the parsed body without the try/catch around JSON.parse.
JsonOrThrow(text, parsed) ==
  IF parsed.ok THEN SentJson(parsed) ELSE [sent |-> "error", body |-> <<>>]

JsonOrText(text, parsed) == IF parsed.ok THEN SentJson(parsed) ELSE SentText(text)

SendContent(harResponse) ==
  IF harResponse.content # <<>>
  THEN IF IsJsonType(getContentType(harResponse))
       THEN JsonOrText(harResponse.content, JSONParse(harResponse.content))
       ELSE SentText(harResponse.content)
  ELSE SentNothing

\* A replay that answers 200 whatever was recorded.
StatusCodeAlways200(harResponse) == 200

\* const statusCode = harResponse.status || 200
StatusCode(harResponse) ==
  IF ~harResponse.hasStatus \/ harResponse.status = 0 THEN 200 ELSE harResponse.status

Response(handler, status, headers, content) ==
  [handler |-> handler, threw |-> FALSE, status |-> status, headers |-> headers,
   sent |-> content.sent, body |-> content.body]

NoResponse ==
  [handler |-> "none", threw |-> FALSE, status |-> 0, headers |-> <<>>,
   sent |-> "none", body |-> <<>>]

\* Express answers an exception of the handler with status 500.
Threw(handler) ==
  [handler |-> handler, threw |-> TRUE, status |-> 500, headers |-> MiddlewareHeaders,
   sent |-> "error", body |-> <<>>]

\* harResponse.status of the object { isPathExists } reads a property of
\* undefined: TypeError before anything is set on the live response.
sendMockedResponse(matchedEntry) ==
  IF ~matchedEntry.isEntry
  THEN Threw("sendMockedResponse")
  ELSE Response("sendMockedResponse", StatusCode(matchedEntry.entry.response),
                EnsureCors(CopyHeaders(MiddlewareHeaders,
                                       matchedEntry.entry.response.headers)),
                SendContent(matchedEntry.entry.response))

\* The msg literal of the default envelope: the two characters U+6210 U+529F.
DefaultMsg == "\\u6210\\u529f"

\* res.status(code).json(body)
JsonEnvelope(handler, code, body) ==
  [handler |-> handler, threw |-> FALSE, status |-> code, headers |-> MiddlewareHeaders,
   sent |-> "json", body |-> body]

\* sendDefaultResponse answering as handleNotFound does.
sendDefaultResponseAs404(now) ==
  JsonEnvelope("sendDefaultResponse", 404,
               [code |-> 404, msg |-> DefaultMsg, timestamp |-> now, data |-> <<>>])

sendDefaultResponse(now) ==
  JsonEnvelope("sendDefaultResponse", 200,
               [code |-> 200, msg |-> DefaultMsg, timestamp |-> now, data |-> <<>>])

\* queryString || null: an empty query is reported as null.
handleNotFound(method, pathname, queryString, now) ==
  JsonEnvelope("handleNotFound", 404,
               [error |-> "Endpoint not found",
                requested |-> [method |-> method, path |-> pathname,
                               query |-> IF queryString = <<>> THEN <<"null">>
                                         ELSE queryString,
                               timestamp |-> now],
                availableEndpoints |-> getAvailableEndpoints])

(***************************************************************************)
(* handleRequest.                                                          *)
(***************************************************************************)
\* req.body as the body parsers leave it: undefined, a Buffer, or the parsed
\* JSON object.
BodyUndefined == [kind |-> "undefined", text |-> <<>>, v |-> JNull]

BodyBuffer(text) == [kind |-> "buffer", text |-> text, v |-> JNull]

BodyObject(v) == [kind |-> "object", text |-> <<>>, v |-> v]

bodyTextOf(body) ==
  CASE body.kind = "undefined" -> NoBodyText
    [] body.kind = "buffer" -> BodyText(body.text)
    [] body.kind = "object" -> BodyText(JSONStringify(sortObjectKeys(body.v)))

\* const [pathname, rawQueryString] = fullUrl.split('?')
PathnameOf(fullUrl) == SplitOn(fullUrl, "?")[1]

SecondOf(parts) == IF Len(parts) < 2 THEN <<>> ELSE parts[2]

RawQueryOf(fullUrl) == SecondOf(SplitOn(fullUrl, "?"))

\* The matcher's answer for a live request.
MatchOf(r) ==
  findMatchingEntry(r.method, PathnameOf(r.originalUrl),
                    sortQueryString(RawQueryOf(r.originalUrl)), bodyTextOf(r.body))

\* The three-way dispatch of handleRequest on that answer.
Dispatch(r, matchedEntry, now) ==
  IF ~matchedEntry.isPathExists
  THEN sendMockedResponse(matchedEntry)
  ELSE IF matchedEntry.isPathExists
  THEN sendDefaultResponse(now)
  ELSE handleNotFound(r.method, PathnameOf(r.originalUrl), RawQueryOf(r.originalUrl), now)

(***************************************************************************)
(* The request pipeline of setupMiddleware and processHAREntries: the body *)
(* parsers, the CORS middleware, the dashboard routes, then the handler of *)
(* app.use('*').  Each request ends in exactly one of them.                *)
(***************************************************************************)
GET == <<"G", "E", "T">>

HEAD == <<"H", "E", "A", "D">>

OPTIONS == <<"O", "P", "T", "I", "O", "N", "S">>

\* req.body of a request whose body express.json could not parse: the parser
\* calls next(err) and Express answers 400; no later middleware runs.
BodyRejected == [kind |-> "rejected", text |-> <<>>, v |-> JNull]

DashboardPage == <<"/", "_", "d", "a", "s", "h", "b", "o", "a", "r", "d">>

DashboardData ==
  <<"/", "a", "p", "i", "/", "d", "a", "s", "h", "b", "o", "a", "r", "d", "-", "d", "a", "t", "a">>

DashboardScript == <<"/", "d", "a", "s", "h", "b", "o", "a", "r", "d", ".", "j", "s">>

TestResultPage ==
  <<"/", "t", "e", "s", "t", "-", "r", "e", "s", "u", "l", "t", ".", "h", "t", "m", "l">>

DashboardRoutes == {DashboardPage, DashboardData, DashboardScript, TestResultPage}

\* The path as an Express route sees it: routing is not case sensitive and not
\* strict, so letter case and one trailing '/' do not count.
RoutePath(pathname) ==
  toLowerCase(IF Len(pathname) > 1 /\ pathname[Len(pathname)] = "/"
              THEN SubSeq(pathname, 1, Len(pathname) - 1)
              ELSE pathname)

\* app.get(path, ...) answers GET and, there being no HEAD route, HEAD.
MatchesRoute(r) ==
  /\ r.method \in {GET, HEAD}
  /\ RoutePath(PathnameOf(r.originalUrl)) \in DashboardRoutes

\* The request passes the parsers, the CORS middleware and the routes.
ReachesHandler(r) ==
  /\ r.body.kind # "rejected"
  /\ r.method # OPTIONS
  /\ ~MatchesRoute(r)

\* express.json rejects the body: 400 from Express's error handler, before the
\* CORS middleware has set any header.
RejectBody(r) ==
  /\ phase = "loaded"
  /\ listening
  /\ res.handler = "none"
  /\ r.body.kind = "rejected"
  /\ req' = r
  /\ res' = [handler |-> "bodyParser", threw |-> FALSE, status |-> 400,
             headers |-> <<>>, sent |-> "error", body |-> <<>>]
  /\ UNCHANGED <<harFile, phase, harData, nextIndex, requestMap, apiGroups, listening,
                 outcome, clock, arg, ret>>

\* The CORS middleware: if (req.method === 'OPTIONS') return res.status(200).end()
AnswerOptions(r) ==
  /\ phase = "loaded"
  /\ listening
  /\ res.handler = "none"
  /\ r.body.kind # "rejected"
  /\ r.method = OPTIONS
  /\ req' = r
  /\ res' = Response("cors", 200, MiddlewareHeaders, SentNothing)
  /\ UNCHANGED <<harFile, phase, harData, nextIndex, requestMap, apiGroups, listening,
                 outcome, clock, arg, ret>>

\* res.sendFile: the file, or 404 from the error handler when it is missing.
SentFile(found) ==
  [handler |-> "dashboard", threw |-> FALSE, status |-> IF found THEN 200 ELSE 404,
   headers |-> MiddlewareHeaders, sent |-> IF found THEN "file" ELSE "error",
   body |-> <<>>]

\* getDashboardData: api.variants is undefined on the mapped list, so reduce
\* throws TypeError as soon as there is a group; with no group it sends JSON.
DashboardDataResponse ==
  IF apiGroups = <<>>
  THEN Response("dashboard", 200, MiddlewareHeaders, [sent |-> "json", body |-> <<>>])
  ELSE Threw("dashboard")

\* The dashboard routes: serveDashboard, getDashboardData and the two files.
ServeDashboard(r) ==
  /\ phase = "loaded"
  /\ listening
  /\ res.handler = "none"
  /\ r.body.kind # "rejected"
  /\ r.method # OPTIONS
  /\ MatchesRoute(r)
  /\ req' = r
  /\ IF RoutePath(PathnameOf(r.originalUrl)) = DashboardData
     THEN res' = DashboardDataResponse
     ELSE \E found \in BOOLEAN : res' = SentFile(found)
  /\ UNCHANGED <<harFile, phase, harData, nextIndex, requestMap, apiGroups, listening,
                 outcome, clock, arg, ret>>

\* A handler that serves each recorded entry once: it deletes what it matched.
HandleRequestOnce(r) ==
  /\ phase = "loaded"
  /\ listening
  /\ res.handler = "none"
  /\ ReachesHandler(r)
  /\ req' = r
  /\ outcome' = MatchOf(r)
  /\ res' = Dispatch(r, outcome', clock)
  /\ requestMap' = SelectSeq(requestMap,
                             LAMBDA kv : ~(outcome'.isEntry /\ kv.value = outcome'.entry))
  /\ UNCHANGED <<harFile, phase, harData, nextIndex, apiGroups, listening, clock, arg, ret>>

\* handleRequest(req, res), the handler of app.use('*'): match, then exactly one
\* branch of the dispatch.
HandleRequest(r) ==
  /\ phase = "loaded"
  /\ listening
  /\ res.handler = "none"
  /\ ReachesHandler(r)
  /\ req' = r
  /\ outcome' = MatchOf(r)
  /\ res' = Dispatch(r, outcome', clock)
  /\ UNCHANGED <<harFile, phase, harData, nextIndex, requestMap, apiGroups, listening, clock, arg, ret>>

NoRequest == [method |-> <<>>, originalUrl |-> <<>>, body |-> BodyUndefined]

\* The handler has returned and the response has gone out: its locals are gone
\* and the server waits for the next request.
EndResponse ==
  /\ res.handler # "none"
  /\ req' = NoRequest
  /\ outcome' = Sentinel(FALSE)
  /\ res' = NoResponse
  /\ UNCHANGED <<harFile, phase, harData, nextIndex, requestMap, apiGroups, listening, clock, arg, ret>>

\* Time passes while the server waits.
Tick ==
  /\ listening
  /\ res.handler = "none"
  /\ clock < MaxClock
  /\ clock' = clock + 1
  /\ UNCHANGED <<harFile, phase, harData, nextIndex, requestMap, apiGroups, listening, req, outcome, res,
                 arg, ret>>

(***************************************************************************)
(* The archives and live requests of the model.                            *)
(***************************************************************************)
GETLower == <<"g", "e", "t">>

POST == <<"P", "O", "S", "T">>

PathA == <<"/", "a">>

PathB == <<"/", "b">>

PathC == <<"/", "c">>

PathABodyX == PathA \o BodyMark \o <<"x">>

QueryK2 == <<"k", "=", "2">>

QueryK5 == <<"k", "=", "5">>

QueryMK == <<"m", "=", "5", "&", "k", "=", "2">>

QueryKM == <<"k", "=", "2", "&", "m", "=", "5">>

\* k=%25 and the same escape encoded twice more.
QueryPct == <<"k", "=", "%", "2", "5">>

QueryPct3 == <<"k", "=", "%", "2", "5", "2", "5", "2", "5">>

TextX == <<"x">>

\* {"b":1,"a":"x"} and the value it parses to.
TextObjBA == <<"{", "\"", "b", "\"", ":", "1", ",", "\"", "a", "\"", ":", "\"", "x", "\"", "}">>

ValueObjBA == JObj(<< <<<<"b">>, JNum(<<"1">>)>>, <<<<"a">>, JStr(<<"x">>)>> >>)

\* postData of an archive entry: the text and the mimeType it was sent with.
HarPostData(text, mimeType) == [has |-> TRUE, text |-> text, mimeType |-> mimeType]

FormUrlencoded == "application/x-www-form-urlencoded"

TextPlain == "text/plain"

HarEntry(method, path, query, postData, status, content) ==
  [request |-> [method |-> method,
                url |-> <<Origin>> \o path
                        \o (IF query = <<>> THEN <<>> ELSE <<"?">> \o query),
                postData |-> postData],
   response |-> [hasStatus |-> TRUE, status |-> status, headers |-> <<>>,
                 content |-> content]]

\* An entry whose request URL has no origin: new URL() throws on it.
BadUrlEntry ==
  [request |-> [method |-> GET, url |-> PathA, postData |-> NoPostData],
   response |-> [hasStatus |-> TRUE, status |-> 200, headers |-> <<>>,
                 content |-> <<>>]]

EntryShapes ==
  { HarEntry(GET, PathA, QueryK2, NoPostData, 200, <<"1">>),
    HarEntry(GET, PathA, QueryMK, NoPostData, 200, <<"2">>),
    HarEntry(GET, PathA, QueryKM, NoPostData, 201, <<"5">>),
    HarEntry(GET, PathA, QueryPct3, NoPostData, 200, <<>>),
    HarEntry(GETLower, PathB, <<>>, NoPostData, 200, <<"1">>),
    HarEntry(POST, PathA, <<>>, HarPostData(TextX, TextPlain), 200, <<"x">>),
    HarEntry(POST, PathA, <<>>, HarPostData(TextObjBA, ApplicationJson), 0, TextObjBA),
    HarEntry(POST, PathA, <<>>, HarPostData(QueryK2, FormUrlencoded), 200, <<"2">>),
    HarEntry(POST, PathA, <<>>, NoPostData, 200, <<>>),
    BadUrlEntry }

Archives == UNION { [1..n -> EntryShapes] : n \in 0..MaxEntries }

\* express.urlencoded: the parameters of the form as an object, a repeated name
\* as an array.
FormValue(values) ==
  IF Len(values) = 1 THEN JStr(values[1])
  ELSE JArr([i \in 1..Len(values) |-> JStr(values[i])])

FormMembers(names, pairs) ==
  [i \in 1..Len(names) |-> <<names[i], FormValue(ParamValues(pairs, names[i]))>>]

FormObject(pairs) == JObj(FormMembers(ParamNames(pairs), pairs))

\* express.json is strict: it accepts a text that parses to an object or an
\* array and answers anything else with 400 before the handler.
JsonBody(parsed) ==
  IF parsed.ok /\ parsed.v.t \in {"obj", "arr"} THEN {BodyObject(parsed.v)}
  ELSE {BodyRejected}

\* req.body after the body parsers of setupMiddleware, for a request that
\* carries postData: express.json, express.urlencoded, express.raw for the
\* rest.  Without body it is undefined or {} (the parsers differ by version).
Transport(postData) ==
  IF ~postData.has \/ postData.text = <<>>
  THEN {BodyUndefined, BodyObject(JObj(<<>>))}
  ELSE IF postData.mimeType = ApplicationJson THEN JsonBody(JSONParse(postData.text))
  ELSE IF postData.mimeType = FormUrlencoded
  THEN {BodyObject(FormObject(querystringParse(postData.text)))}
  ELSE {BodyBuffer(postData.text)}

\* The live requests that send a recorded request again: same method, path
\* and raw query, the recorded body through the transport.  Node's HTTP parser
\* accepts upper-case methods only.
ReplayUrl(request, parsedUrl, bodies) ==
  IF parsedUrl.ok /\ request.method = toUpperCase(request.method)
  THEN { [method |-> request.method,
          originalUrl |-> parsedUrl.pathname \o parsedUrl.search,
          body |-> b] : b \in bodies }
  ELSE {}

ReplaysOf(request) ==
  ReplayUrl(request, URLParse(request.url), Transport(request.postData))

LiveRequest(method, path, query, body) ==
  [method |-> method,
   originalUrl |-> path \o (IF query = <<>> THEN <<>> ELSE <<"?">> \o query),
   body |-> body]

\* Requests for the middleware and the dashboard routes: preflights, the four
\* routes, a route with a query, with a trailing '/', by HEAD and by POST, and
\* bodies that express.json rejects.
PipelineRequests ==
  { LiveRequest(OPTIONS, PathA, <<>>, BodyUndefined),
    LiveRequest(OPTIONS, PathA, <<>>, BodyRejected),
    LiveRequest(OPTIONS, DashboardPage, <<>>, BodyUndefined),
    LiveRequest(GET, DashboardPage, QueryK2, BodyUndefined),
    LiveRequest(GET, DashboardPage \o <<"/">>, <<>>, BodyUndefined),
    LiveRequest(HEAD, DashboardPage, <<>>, BodyUndefined),
    LiveRequest(POST, DashboardPage, <<>>, BodyUndefined),
    LiveRequest(POST, PathA, <<>>, BodyRejected) }
  \cup { LiveRequest(GET, p, <<>>, BodyUndefined) : p \in DashboardRoutes }

Requests ==
  { LiveRequest(GET, p, q, BodyUndefined) :
      p \in {PathA, PathB, PathC},
      q \in {<<>>, QueryK2, QueryK5, QueryMK, QueryPct} }
  \cup
  { LiveRequest(POST, p, <<>>, b) :
      p \in {PathA, PathC, PathABodyX},
      b \in {BodyUndefined, BodyBuffer(TextX), BodyBuffer(TextObjBA),
             BodyBuffer(<<" ">>), BodyObject(ValueObjBA)} }
  \cup
  UNION { ReplaysOf(e.request) : e \in EntryShapes }
  \cup
  PipelineRequests

\* The file at harFilePath: absent, not JSON, JSON without log, log without
\* entries, or a log with an array of entries.
HarFile(exists, parses, hasLog, hasEntries, entries) ==
  [exists |-> exists, parses |-> parses, hasLog |-> hasLog, hasEntries |-> hasEntries,
   entries |-> entries]

HarFiles ==
  { HarFile(FALSE, FALSE, FALSE, FALSE, <<>>),
    HarFile(TRUE, FALSE, FALSE, FALSE, <<>>),
    HarFile(TRUE, TRUE, FALSE, FALSE, <<>>),
    HarFile(TRUE, TRUE, TRUE, FALSE, <<>>) }
  \cup { HarFile(TRUE, TRUE, TRUE, TRUE, entries) : entries \in Archives }

Idle == [op |-> "none"]

\* The server after construction: this.harData is null, the maps are empty.
Init ==
  /\ harFile \in HarFiles
  /\ phase = "constructed"
  /\ harData = <<>>
  /\ nextIndex = 0
  /\ requestMap = <<>>
  /\ apiGroups = <<>>
  /\ listening = FALSE
  /\ req = NoRequest
  /\ outcome = Sentinel(FALSE)
  /\ res = NoResponse
  /\ clock = 0
  /\ arg = Idle
  /\ ret = Idle

Next ==
  \/ loadHARFile
  \/ RegisterEntry
  \/ startServer
  \/ \E r \in Requests : RejectBody(r)
  \/ \E r \in Requests : AnswerOptions(r)
  \/ \E r \in Requests : ServeDashboard(r)
  \/ \E r \in Requests : HandleRequest(r)
  \/ EndResponse
  \/ Tick

Spec == Init /\ [][Next]_vars

(***************************************************************************)
(* The server on archives that record the methods and paths the middleware *)
(* and the dashboard routes answer themselves.                             *)
(***************************************************************************)
PipelineShapes ==
  { HarEntry(OPTIONS, PathA, <<>>, NoPostData, 200, <<"1">>),
    HarEntry(GET, DashboardPage, <<>>, NoPostData, 200, <<"2">>),
    HarEntry(HEAD, DashboardPage, <<>>, NoPostData, 200, <<>>),
    HarEntry(GET, PathA, QueryK2, NoPostData, 200, <<"5">>) }

PipelineArchives == UNION { [1..n -> PipelineShapes] : n \in 0..MaxEntries }

PipelineInit ==
  /\ \E entries \in PipelineArchives : harFile = HarFile(TRUE, TRUE, TRUE, TRUE, entries)
  /\ phase = "constructed"
  /\ harData = <<>>
  /\ nextIndex = 0
  /\ requestMap = <<>>
  /\ apiGroups = <<>>
  /\ listening = FALSE
  /\ req = NoRequest
  /\ outcome = Sentinel(FALSE)
  /\ res = NoResponse
  /\ clock = 0
  /\ arg = Idle
  /\ ret = Idle

SpecPipeline == PipelineInit /\ [][Next]_vars

(***************************************************************************)
(* The Key Normalizer on its own: sortQueryString and generateRequestKey   *)
(* applied to inputs drawn from bounded sets of query strings and bodies.  *)
(***************************************************************************)
QueryPieces ==
  { <<"k", "=">>, <<"m">>, <<"&">>, <<"%", "2", "5">>, <<"2", "5">>, <<"2">>, <<"%">> }

\* The query strings made of at most n pieces.
RECURSIVE QueryStrings(_)
QueryStrings(n) ==
  IF n = 0 THEN {<<>>}
  ELSE QueryStrings(n - 1) \cup {p \o q : p \in QueryPieces, q \in QueryStrings(n - 1)}

Orders(n) == {f \in [1..n -> 1..n] : \A i, j \in 1..n : f[i] = f[j] => i = j}

\* The fragments of a query string in the order f.
Permuted(frags, f) == JoinWith([i \in 1..Len(frags) |-> frags[f[i]]], "&")

JsonAtoms == {JNull, JNum(<<"1">>), JStr(<<"x">>), JStr(<<" ", " ">>)}

\* The JSON values nested at most d deep.
RECURSIVE JsonValues(_)
JsonValues(d) ==
  IF d = 0 THEN JsonAtoms
  ELSE JsonValues(d - 1)
       \cup {JArr(<<v>>) : v \in JsonValues(d - 1)}
       \cup {JObj(<< <<<<"a">>, v>>, <<<<"b">>, w>> >>) :
               v \in JsonValues(d - 1), w \in {JNull, JNum(<<"1">>)}}

\* A JSON text of v: members in key order or reversed, compact or with a blank
\* after every ':' and ','.
RECURSIVE Render(_, _, _)
Render(v, reversed, blank) ==
  CASE v.t = "arr" -> <<"[">> \o Render(v.kids[1], reversed, blank) \o <<"]">>
    [] v.t = "obj" ->
         <<"{", "\"">> \o v.kids[IF reversed THEN 2 ELSE 1][1] \o <<"\"", ":">> \o blank
         \o Render(v.kids[IF reversed THEN 2 ELSE 1][2], reversed, blank)
         \o <<",">> \o blank \o <<"\"">>
         \o v.kids[IF reversed THEN 1 ELSE 2][1] \o <<"\"", ":">> \o blank
         \o Render(v.kids[IF reversed THEN 1 ELSE 2][2], reversed, blank) \o <<"}">>
    [] OTHER -> JSONStringify(v)

\* The layouts: blank also precedes the whole text.
BodyTexts(v) == {blank \o Render(v, reversed, blank) :
                   reversed \in BOOLEAN, blank \in {<<>>, <<" ">>}}

\* Bodies that are not JSON.
PlainTexts == { <<"x">>, <<"x", " ", " ", "x">>, <<"x", "\n", "x">>, <<" ", "x">>,
                <<"{", "\"", "a", "\"", ":", "\"", "\n", "\"", "}">>, <<" ">> }

\* The JSON values whose body texts are compared with one another: " " is the
\* string that "  " reads as once its blanks are collapsed.
ComparedValues == JsonValues(MaxDepth - 1) \cup {JStr(<<" ">>)}

\* k=2:body:x, a query that ends like a body part.
QueryK2BodyX == QueryK2 \o BodyMark \o <<"x">>

\* k=%2525, whose value is the text %25.
QueryPct2 == <<"k", "=", "%", "2", "5", "2", "5">>

\* k=2%26m=5, whose one value is the text 2&m=5.
QueryAmp == <<"k", "=", "2", "%", "2", "6", "m", "=", "5">>

\* The raw queries whose normalized forms are compared with one another.
ComparedQueries ==
  { <<>>, QueryK2, QueryK5, QueryMK, QueryKM, QueryAmp, QueryPct, QueryPct2, QueryPct3,
    <<"k", "=", "%">>, <<"k", "=", "2", "&", "k", "=", "5">>,
    <<"k", "=", "5", "&", "k", "=", "2">>, <<"k", "=", "2", "&", "k", "=", "2">> }

\* The requests whose signatures are compared: a path, a raw query and postData.
SignedRequests ==
  { [path |-> p, query |-> q, postData |-> d] :
      p \in {PathA, PathB, PathABodyX},
      q \in {<<>>, QueryK2, QueryKM, QueryMK, QueryK2BodyX},
      d \in {NoPostData, PostData(TextX), PostData(<<" ">>)} }

NormInit ==
  /\ harFile = HarFile(FALSE, FALSE, FALSE, FALSE, <<>>)
  /\ phase = "constructed"
  /\ harData = <<>>
  /\ nextIndex = 0
  /\ requestMap = <<>>
  /\ apiGroups = <<>>
  /\ listening = FALSE
  /\ req = NoRequest
  /\ outcome = Sentinel(FALSE)
  /\ res = NoResponse
  /\ clock = 0
  /\ ret = Idle
  /\ \/ \E q \in QueryStrings(MaxPieces) : arg = [op |-> "query", query |-> q]
     \/ \E v \in JsonValues(MaxDepth) : \E t1, t2 \in BodyTexts(v) :
          arg = [op |-> "body", text1 |-> t1, text2 |-> t2]
     \/ \E t1, t2 \in PlainTexts : arg = [op |-> "body", text1 |-> t1, text2 |-> t2]
     \/ \E v, w \in ComparedValues : \E t1 \in BodyTexts(v), t2 \in BodyTexts(w) :
          v # w /\ arg = [op |-> "body", text1 |-> t1, text2 |-> t2]
     \/ \E r1, r2 \in SignedRequests : arg = [op |-> "requests", r1 |-> r1, r2 |-> r2]
     \/ \E q1, q2 \in ComparedQueries : arg = [op |-> "queries", q1 |-> q1, q2 |-> q2]

\* sortQueryString on a query and on the same fragments in another order.
SortPermuted ==
  /\ arg.op = "query"
  /\ ret = Idle
  /\ \E f \in Orders(Len(SplitOn(arg.query, "&"))) :
       ret' = [op |-> "permuted",
               query2 |-> Permuted(SplitOn(arg.query, "&"), f),
               first |-> sortQueryString(arg.query),
               second |-> sortQueryString(Permuted(SplitOn(arg.query, "&"), f))]
  /\ UNCHANGED <<serverVars, arg>>

\* sortQueryString applied once and twice.
SortTwice ==
  /\ arg.op = "query"
  /\ ret = Idle
  /\ ret' = [op |-> "twice",
             once |-> sortQueryString(arg.query),
             twice |-> sortQueryString(sortQueryString(arg.query))]
  /\ UNCHANGED <<serverVars, arg>>

\* generateRequestKey on two requests that differ only in the body text.
KeyBodies ==
  /\ arg.op = "body"
  /\ ret = Idle
  /\ \E m \in {GET, POST}, q \in {<<>>, QueryMK} :
       ret' = [op |-> "keys",
               key1 |-> generateRequestKey(m, PathA, q, PostData(arg.text1)),
               key2 |-> generateRequestKey(m, PathA, q, PostData(arg.text2))]
  /\ UNCHANGED <<serverVars, arg>>

\* generateRequestKey on two requests, each called as processHAREntries calls
\* it: with the path, the normalized query and the postData.
KeyRequests ==
  /\ arg.op = "requests"
  /\ ret = Idle
  /\ \E m \in {GET, POST} :
       ret' = [op |-> "signatures",
               key1 |-> generateRequestKey(m, arg.r1.path, sortQueryString(arg.r1.query),
                                           arg.r1.postData),
               key2 |-> generateRequestKey(m, arg.r2.path, sortQueryString(arg.r2.query),
                                           arg.r2.postData)]
  /\ UNCHANGED <<serverVars, arg>>

\* sortQueryString on two raw queries, as processHAREntries applies it to the
\* search part of each recorded URL.
SortBoth ==
  /\ arg.op = "queries"
  /\ ret = Idle
  /\ ret' = [op |-> "sorted",
             first |-> sortQueryString(arg.q1),
             second |-> sortQueryString(arg.q2)]
  /\ UNCHANGED <<serverVars, arg>>

NormNext == SortPermuted \/ SortTwice \/ KeyBodies \/ KeyRequests \/ SortBoth

SpecNorm == NormInit /\ [][NormNext]_vars

(***************************************************************************)
(* The Responder on its own: sendMockedResponse applied to recorded        *)
(* responses drawn from bounded sets of statuses, headers and bodies.      *)
(***************************************************************************)
Header(name, value) == [name |-> name, value |-> value]

\* One recorded header per name of skipHeaders (in the capitalisation servers
\* send), two content types, a repeated name, the CORS origin with a value and
\* with an empty one, and an HTTP/2 pseudo-header.
RecordedHeaders ==
  { Header(<<"C", "o", "n", "t", "e", "n", "t", "-", "T", "y", "p", "e">>,
           <<ApplicationJson>>),
    Header(<<"c", "o", "n", "t", "e", "n", "t", "-", "t", "y", "p", "e">>,
           <<"text/plain">>),
    Header(<<"C", "o", "n", "t", "e", "n", "t", "-", "E", "n", "c", "o", "d", "i", "n", "g">>,
           <<"gzip">>),
    Header(<<"C", "o", "n", "t", "e", "n", "t", "-", "L", "e", "n", "g", "t", "h">>,
           <<"1">>),
    Header(<<"T", "r", "a", "n", "s", "f", "e", "r", "-", "E", "n", "c", "o", "d", "i", "n", "g">>,
           <<"chunked">>),
    Header(<<"C", "o", "n", "n", "e", "c", "t", "i", "o", "n">>,
           <<"close">>),
    Header(<<"U", "p", "g", "r", "a", "d", "e">>,
           <<"h2c">>),
    Header(<<"H", "O", "S", "T">>,
           <<"h">>),
    Header(<<"O", "r", "i", "g", "i", "n">>,
           <<"http://o">>),
    Header(<<"R", "e", "f", "e", "r", "e", "r">>,
           <<"http://o">>),
    Header(<<"S", "e", "t", "-", "C", "o", "o", "k", "i", "e">>,
           <<"a">>),
    Header(<<"S", "e", "t", "-", "C", "o", "o", "k", "i", "e">>,
           <<"b">>),
    Header(<<"A", "c", "c", "e", "s", "s", "-", "C", "o", "n", "t", "r", "o", "l", "-", "A", "l", "l", "o", "w", "-", "O", "r", "i", "g", "i", "n">>,
           <<"http://o">>),
    Header(<<"a", "c", "c", "e", "s", "s", "-", "c", "o", "n", "t", "r", "o", "l", "-", "a", "l", "l", "o", "w", "-", "o", "r", "i", "g", "i", "n">>,
           <<>>),
    Header(<<":", "s", "t", "a", "t", "u", "s">>,
           <<"200">>) }

HeaderLists == UNION { [1..n -> RecordedHeaders] : n \in 0..MaxHeaders }

\* {"a": 1} with a blank, and a text that is not JSON.
TextObjA == <<"{", "\"", "a", "\"", ":", " ", "1", "}">>

TextBroken == <<"{">>

RecordedContents == {<<>>, TextX, TextObjA, TextBroken}

\* No status, the status 0 of a request that got no response, and two codes.
RecordedStatuses ==
  { [hasStatus |-> FALSE, status |-> 0], [hasStatus |-> TRUE, status |-> 0],
    [hasStatus |-> TRUE, status |-> 200], [hasStatus |-> TRUE, status |-> 404] }

HarResponse(status, headers, content) ==
  [hasStatus |-> status.hasStatus, status |-> status.status, headers |-> headers,
   content |-> content]

HarResponses ==
  { HarResponse(st, hs, c) :
      st \in RecordedStatuses, hs \in HeaderLists, c \in RecordedContents }

ReplayInit ==
  /\ harFile = HarFile(FALSE, FALSE, FALSE, FALSE, <<>>)
  /\ phase = "constructed"
  /\ harData = <<>>
  /\ nextIndex = 0
  /\ requestMap = <<>>
  /\ apiGroups = <<>>
  /\ listening = FALSE
  /\ req = NoRequest
  /\ outcome = Sentinel(FALSE)
  /\ res = NoResponse
  /\ clock = 0
  /\ ret = Idle
  /\ \E r \in HarResponses : arg = [op |-> "replay", response |-> r]

\* sendMockedResponse on a matched entry with the recorded response.
Replay ==
  /\ arg.op = "replay"
  /\ ret = Idle
  /\ ret' = [op |-> "replayed",
             res |-> sendMockedResponse(Found([index |-> 0, response |-> arg.response]))]
  /\ UNCHANGED <<serverVars, arg>>

ReplayNext == Replay

SpecReplay == ReplayInit /\ [][ReplayNext]_vars

(***************************************************************************)
(* Properties.                                                             *)
(***************************************************************************)
\* The request has gone through handleRequest.
Handled == res.handler \in {"sendMockedResponse", "sendDefaultResponse", "handleNotFound"}

\* The request being handled, as handleRequest reads it.
ReqPath == PathnameOf(req.originalUrl)

ReqRawQuery == RawQueryOf(req.originalUrl)

ReqQuery == sortQueryString(ReqRawQuery)

ReqBody == bodyTextOf(req.body)

PathUnknown == ~outcome.isEntry /\ ~outcome.isPathExists

PathKnownNoVariant == ~outcome.isEntry /\ outcome.isPathExists

\* The 0-based ordinals of the entries processHAREntries has registered.
Registered == {i \in 0..(nextIndex - 1) : URLParse(harData[i + 1].request.url).ok}

EntryPath(i) == URLParse(harData[i + 1].request.url).pathname

EntryRawQuery(i) == Slice1(URLParse(harData[i + 1].request.url).search)

\* The signature built from the entry's method, path, normalized query and body.
EntrySignature(i) ==
  generateRequestKey(harData[i + 1].request.method, EntryPath(i),
                     sortQueryString(EntryRawQuery(i)), harData[i + 1].request.postData)

\* Both exact-signature lookups of findMatchingEntry miss for the request.
BothLookupsMiss ==
  /\ \/ ~(ReqBody.has /\ ReqBody.text # <<>>)
     \/ ~MapHas(requestMap, generateRequestKey(req.method, ReqPath, ReqQuery,
                                               PostData(ReqBody.text)))
  /\ ~MapHas(requestMap, generateRequestKey(req.method, ReqPath, ReqQuery, NoPostData))

\* C1: every request with outcome PathUnknown is answered by handleNotFound with
\* status 404 and the envelope of the requested method, path and query, the
\* current time and at most 10 known endpoints.
C1_UnknownPathGets404 ==
  (Handled /\ PathUnknown) =>
     /\ res.status = 404
     /\ res.handler = "handleNotFound"
     /\ res.body.requested.method = req.method
     /\ res.body.requested.path = ReqPath
     /\ res.body.requested.timestamp = clock
     /\ Len(res.body.availableEndpoints) <= MaxEndpoints

\* C2: when some registered entry has the request's method and path and neither
\* lookup hits, the outcome is PathKnownNoVariant; and an entry is returned only
\* if it was recorded with the request's normalized query.
C2_KnownPathNoWrongVariant ==
  Handled =>
     /\ ((BothLookupsMiss
          /\ \E i \in Registered :
               /\ toUpperCase(harData[i + 1].request.method) = req.method
               /\ EntryPath(i) = ReqPath)
         => PathKnownNoVariant)
     /\ (outcome.isEntry => outcome.entry.normalizedQueryParams = ReqQuery)

\* Looking up the signature of any registered entry returns that entry itself.
RoundTripEveryEntry ==
  \A i \in Registered :
     /\ MapHas(requestMap, EntrySignature(i))
     /\ MapGet(requestMap, EntrySignature(i)).index = i

\* Looking up the signature of a registered entry returns the last-registered
\* entry with that signature.
RoundTripLastWins ==
  \A i \in Registered :
     LET signature == EntrySignature(i) IN
       /\ MapHas(requestMap, signature)
       /\ LET found == MapGet(requestMap, signature).index IN
            /\ found \in Registered
            /\ found >= i
            /\ (found > i => EntrySignature(found) = signature)
            /\ \A j \in Registered : j > found => EntrySignature(j) # signature

\* processHAREntries is running or has just returned: the index as it stands
\* up to the call of startServer (no step changes it afterwards, see C19).
Registering == phase = "loaded" /\ ~listening

\* C3 as stated: at every point of processHAREntries, looking up the signature
\* of any registered entry returns that entry itself.
C3_RoundTripEveryEntry == Registering => RoundTripEveryEntry

\* C3 amended: at every point of processHAREntries, looking up the signature of
\* a registered entry returns the last-registered entry that has this
\* signature, which is the entry itself when no later entry shares it.
C3_RoundTripLastWins == Registering => RoundTripLastWins

C3_Witness ==
  /\ Registering
  /\ 0 \in Registered
  /\ 1 \in Registered
  /\ EntrySignature(0) # EntrySignature(1)
  /\ MapGet(requestMap, EntrySignature(0)).index = 0
  /\ MapGet(requestMap, EntrySignature(1)).index = 1

\* C4: two bodies that parse to JSON values equal up to the order of object keys
\* give the same request key.
C4_KeyOrderIndependent ==
  (/\ ret.op = "keys"
   /\ JSONParse(arg.text1).ok
   /\ JSONParse(arg.text2).ok
   /\ sortObjectKeys(JSONParse(arg.text1).v) = sortObjectKeys(JSONParse(arg.text2).v))
  => ret.key1 = ret.key2

\* C5: sortQueryString gives the same text for a query string and for the same
\* fragments in any other order.
C5_OrderIndependent == ret.op = "permuted" => ret.first = ret.second

\* A repeated parameter name whose two values swap places.
C5_Witness ==
  /\ ret.op = "permuted"
  /\ ret.query2 # arg.query
  /\ ~MalformedURI(arg.query)
  /\ Len(querystringParse(arg.query)) = 2
  /\ querystringParse(arg.query)[1].name = querystringParse(arg.query)[2].name
  /\ querystringParse(arg.query)[1].value # querystringParse(arg.query)[2].value
  /\ querystringParse(ret.query2)[1].value = querystringParse(arg.query)[2].value
  /\ ret.first = ret.second

C7_UnregisteredPathUnknown ==
  (Handled /\ \A i \in Registered : EntryPath(i) # ReqPath) => PathUnknown

\* Every pair of registered entries with one signature left both variants in
\* the group, and the signature leads to an entry no earlier than the later one.
LaterEntryWins ==
  \A j \in Registered :
     LET signature == EntrySignature(j) IN
       \A i \in Registered :
          (i < j /\ EntrySignature(i) = signature) =>
             /\ MapHas(requestMap, signature)
             /\ MapGet(requestMap, signature).index >= j
             /\ MapGet(requestMap, signature).index \in Registered
             /\ \E g \in 1..Len(apiGroups) :
                  \E a, b \in 1..Len(apiGroups[g].value.variants) :
                     /\ a < b
                     /\ apiGroups[g].value.variants[a].index = i
                     /\ apiGroups[g].value.variants[b].index = j

\* C8: when two registered entries have the same signature, both registrations
\* went through (each left its variant in the group) and the lookup of the
\* signature returns an entry registered no earlier than the later of the two.
C8_LastWriteWins == Registering => LaterEntryWins

\* Two entries recorded with different raw queries and different responses
\* collide, and the lookup gives the response of the second.
C8_Witness ==
  /\ Registering
  /\ nextIndex = 2
  /\ Registered = {0, 1}
  /\ EntrySignature(0) = EntrySignature(1)
  /\ EntryRawQuery(0) # EntryRawQuery(1)
  /\ harData[1].response # harData[2].response
  /\ Len(requestMap) = 1
  /\ MapGet(requestMap, EntrySignature(0)).response = harData[2].response

\* C9: sortQueryString applied to its own result returns it unchanged.
C9_Idempotent == ret.op = "twice" => ret.twice = ret.once

C11_BadArchiveAborts ==
  LoadFails(harFile) =>
     /\ phase # "loaded"
     /\ nextIndex = 0
     /\ requestMap = <<>>
     /\ apiGroups = <<>>
     /\ ~listening
     /\ res.handler = "none"

\* init has exited on a file that parses and has a log, but no entries.
C11_Witness ==
  /\ harFile.exists
  /\ harFile.parses
  /\ harFile.hasLog
  /\ ~harFile.hasEntries
  /\ phase = "exited"
\* The recorded response sendMockedResponse was given, and what it emitted.
Replayed == ret.op = "replayed"

\* The recorded content type: the value of the first header named content-type.
RecordedJsonType(r) ==
  \E i \in 1..Len(r.headers) :
     /\ toLowerCase(r.headers[i].name) = toLowerCase(ContentType)
     /\ \A j \in 1..(i - 1) : toLowerCase(r.headers[j].name) # toLowerCase(ContentType)
     /\ \E k \in 1..Len(r.headers[i].value) : r.headers[i].value[k] = ApplicationJson

\* C12: replay never fails because of the recorded body: JSON content type and
\* a body that parses give the structured JSON, JSON content type and a body
\* that does not parse give the raw text, any other content type gives the raw
\* text, no recorded body gives an empty body.
C12_BodyNeverFails ==
  Replayed =>
     /\ ~ret.res.threw
     /\ ret.res.sent \in {"json", "send", "end"}
     /\ (arg.response.content = <<>>
          => ret.res.sent = "end" /\ ret.res.body = <<>>)
     /\ (arg.response.content # <<>> /\ ~RecordedJsonType(arg.response)
          => ret.res.sent = "send" /\ ret.res.body = arg.response.content)
     /\ (arg.response.content # <<>> /\ RecordedJsonType(arg.response)
          /\ ~JSONParse(arg.response.content).ok
          => ret.res.sent = "send" /\ ret.res.body = arg.response.content)
     /\ (arg.response.content # <<>> /\ RecordedJsonType(arg.response)
          /\ JSONParse(arg.response.content).ok
          => /\ ret.res.sent = "json"
             /\ ret.res.body = JSONStringify(JSONParse(arg.response.content).v))

\* A JSON content type with a body that is not JSON went out as raw text.
C12_Witness ==
  /\ Replayed
  /\ RecordedJsonType(arg.response)
  /\ arg.response.content = TextBroken
  /\ ret.res.sent = "send"
  /\ ret.res.body = TextBroken

\* C13: no recorded header whose lower-cased name is in the denylist is on the
\* live response, and every other recorded header is on it with its recorded
\* value.
C13_HeadersCopiedExceptDenylist ==
  Replayed =>
     \A i \in 1..Len(arg.response.headers) :
        IF Includes(skipHeaders, toLowerCase(arg.response.headers[i].name))
        THEN ~HeaderHas(ret.res.headers, arg.response.headers[i].name)
        ELSE /\ HeaderHas(ret.res.headers, arg.response.headers[i].name)
             /\ HeaderGet(ret.res.headers, arg.response.headers[i].name)
                  = arg.response.headers[i].value

\* C14: after replay the live response carries Access-Control-Allow-Origin, with
\* a recorded value whenever the entry recorded that header and '*' otherwise.
C14_CorsOriginPresent ==
  Replayed =>
     /\ HeaderHas(ret.res.headers, AccessControlAllowOrigin)
     /\ IF \E i \in 1..Len(arg.response.headers) :
             toLowerCase(arg.response.headers[i].name)
               = toLowerCase(AccessControlAllowOrigin)
        THEN \E i \in 1..Len(arg.response.headers) :
                /\ toLowerCase(arg.response.headers[i].name)
                     = toLowerCase(AccessControlAllowOrigin)
                /\ HeaderGet(ret.res.headers, AccessControlAllowOrigin)
                     = arg.response.headers[i].value
        ELSE HeaderGet(ret.res.headers, AccessControlAllowOrigin) = Wildcard

\* C15 as stated: the live status is the recorded status for every recorded
\* value, and 200 only when no status was recorded.
C15_StatusAsRecorded ==
  Replayed =>
     ret.res.status = IF arg.response.hasStatus THEN arg.response.status ELSE 200

\* C15 amended: the live status is the recorded status for every recorded value
\* other than 0, and 200 when no status was recorded or the recorded status is 0.
C15_StatusAsRecordedNonZero ==
  Replayed =>
     ret.res.status = IF arg.response.hasStatus /\ arg.response.status # 0
                      THEN arg.response.status ELSE 200

\* A recorded 404 was replayed as 404.
C15_Witness ==
  /\ Replayed
  /\ arg.response.hasStatus
  /\ arg.response.status = 404
  /\ ret.res.status = 404

\* C16: handleRequest raises no exception and exactly the handler of the
\* outcome runs: sendMockedResponse for an entry, sendDefaultResponse for
\* PathKnownNoVariant, handleNotFound for PathUnknown.
C16_ExactlyOneHandler ==
  Handled =>
     /\ ~res.threw
     /\ (outcome.isEntry => res.handler = "sendMockedResponse")
     /\ (PathKnownNoVariant => res.handler = "sendDefaultResponse")
     /\ (PathUnknown => res.handler = "handleNotFound")
     /\ (res.handler = "sendMockedResponse" => outcome.isEntry)
\* Entry i is the last registered entry under its signature.
LastUnderSignature(i) ==
  \A k \in Registered : EntrySignature(k) = EntrySignature(i) => k <= i

\* The two signatures findMatchingEntry builds for the request being handled.
ReqHasBody == ReqBody.has /\ Trim(ReqBody.text) # <<>>

ReqKeyWithBody ==
  generateRequestKey(req.method, ReqPath, ReqQuery, PostData(ReqBody.text))

ReqKeyWithoutBody == generateRequestKey(req.method, ReqPath, ReqQuery, NoPostData)

\* Entry j was recorded without body for the request's method, path and query.
BodylessFor(j) ==
  /\ j \in Registered
  /\ ~harData[j + 1].request.postData.has
  /\ EntrySignature(j) = ReqKeyWithoutBody
  /\ LastUnderSignature(j)

\* Entry i was recorded with the body the request carries.
WithBodyFor(i) ==
  /\ i \in Registered
  /\ harData[i + 1].request.postData.has
  /\ ReqHasBody
  /\ EntrySignature(i) = ReqKeyWithBody
  /\ LastUnderSignature(i)

\* C17: when a body-less entry exists for the request's method, path and query,
\* a request carrying the body of a with-body entry gets that entry, and a
\* request with an absent, blank or unrecorded body gets the body-less entry.
C17_BodyFirstThenBodyless ==
  Handled =>
     \A j \in Registered :
        BodylessFor(j) =>
           /\ outcome.isEntry
           /\ \A i \in Registered : WithBodyFor(i) => outcome.entry.index = i
           /\ ((~ReqHasBody \/ \A i \in Registered : EntrySignature(i) # ReqKeyWithBody)
               => outcome.entry.index = j)

\* Both entries exist and the request with the recorded body got the with-body
\* entry, not the body-less one.
C17_Witness ==
  /\ Handled
  /\ \E i, j \in Registered :
        /\ i # j
        /\ BodylessFor(j)
        /\ WithBodyFor(i)
        /\ outcome.isEntry
        /\ outcome.entry.index = i

\* C18: the server listens, and a request is handled, only after every archive
\* entry has been through processHAREntries.
C18_ListenAfterRegistration ==
  (listening \/ Handled) =>
     /\ phase = "loaded"
     /\ harData = harFile.entries
     /\ nextIndex = Len(harData)
     /\ Len(requestMap) > 0 \/ Registered = {}
     /\ \A i \in Registered :
          \E g \in 1..Len(apiGroups) :
             \E a \in 1..Len(apiGroups[g].value.variants) :
                /\ apiGroups[g].value.variants[a].index = i
                /\ MapHas(requestMap, apiGroups[g].value.variants[a].requestKey)

\* A request is being answered from an index built from two entries.
C18_Witness ==
  /\ Handled
  /\ Len(harData) = 2
  /\ nextIndex = 2
  /\ Len(requestMap) = 2
  /\ outcome.isEntry

\* C19: once the server listens, no step changes requestMap or apiGroups, and
\* the outcome of a request is what findMatchingEntry gives on them.
C19_HandlingLeavesIndex ==
  [][listening =>
        /\ requestMap' = requestMap
        /\ apiGroups' = apiGroups
        /\ harData' = harData
        /\ (res'.handler \in {"sendMockedResponse", "sendDefaultResponse",
                            "handleNotFound"}
            => outcome' = MatchOf(req'))]_vars

\* A matched request has been answered and both entries are still indexed.
C19_Witness ==
  /\ Handled
  /\ outcome.isEntry
  /\ res.handler = "sendMockedResponse"
  /\ Registered = {0, 1}
  /\ Len(requestMap) = 2
  /\ \A i \in Registered : MapGet(requestMap, EntrySignature(i)).index = i
  /\ Len(apiGroups) >= 1
\* C20: for every registered entry that is the last under its signature, the
\* live request that sends the recorded request again is matched to that entry.
C20_ReplayedRequestMatches ==
  Handled =>
     \A i \in Registered :
        (LastUnderSignature(i) /\ req \in ReplaysOf(harData[i + 1].request))
        => (outcome.isEntry /\ outcome.entry.index = i)

\* The normalized body of a signature: none for postData without non-blank
\* text, else what generateRequestKey appends after the ':body:' mark.
NormalizedBody(postData) ==
  IF postData.has /\ postData.text # <<>> /\ Trim(postData.text) # <<>>
  THEN <<SubSeq(BodyPart(postData.text, normalizeJson(postData.text)),
                Len(BodyMark) + 1,
                Len(BodyPart(postData.text, normalizeJson(postData.text))))>>
  ELSE <<>>

\* C21: two requests with the same method get the same signature only if they
\* have the same path, the same normalized query and the same normalized body.
C21_SignatureUnambiguous ==
  (ret.op = "signatures" /\ ret.key1 = ret.key2) =>
     /\ arg.r1.path = arg.r2.path
     /\ sortQueryString(arg.r1.query) = sortQueryString(arg.r2.query)
     /\ NormalizedBody(arg.r1.postData) = NormalizedBody(arg.r2.postData)

\* C22: two body texts that parse to different JSON values (objects compared
\* up to the order of their keys) never get the same request key.
C22_BodyDeterminesValue ==
  (/\ ret.op = "keys"
   /\ JSONParse(arg.text1).ok
   /\ JSONParse(arg.text2).ok
   /\ sortObjectKeys(JSONParse(arg.text1).v) # sortObjectKeys(JSONParse(arg.text2).v))
  => ret.key1 # ret.key2

\* The parameters a raw query decodes to: its fragments between '&', each split
\* at its first '=', name and value percent-decoded once; as a multiset (how
\* many times each pair occurs).
DecodedParams(query) ==
  [p \in {querystringParse(query)[i] : i \in 1..Len(querystringParse(query))} |->
     Cardinality({i \in 1..Len(querystringParse(query)) : querystringParse(query)[i] = p})]

\* C23: sortQueryString gives two raw queries the same normalized form only if
\* they decode to the same multiset of (name, value) parameters.
C23_NormalFormDeterminesParams ==
  (ret.op = "sorted" /\ ret.first = ret.second)
  => DecodedParams(arg.q1) = DecodedParams(arg.q2)

\* C24: for every registered entry with recorded method m and path p,
\* checkPathExists(uppercase(m), p) is true, and a live request to a recorded
\* method and path never has the outcome PathUnknown.
C24_RecordedPathKnown ==
  /\ \A i \in Registered :
        checkPathExists(toUpperCase(harData[i + 1].request.method), EntryPath(i))
  /\ Handled =>
        ((\E i \in Registered :
             /\ toUpperCase(harData[i + 1].request.method) = req.method
             /\ EntryPath(i) = ReqPath)
         => ~PathUnknown)

\* The variant that processHAREntries pushed for the registered entry i.
VariantOf(i) ==
  LET g == CHOOSE g \in 1..Len(apiGroups) :
             \E a \in 1..Len(apiGroups[g].value.variants) :
                apiGroups[g].value.variants[a].index = i
  IN apiGroups[g].value.variants[
       CHOOSE a \in 1..Len(apiGroups[g].value.variants) :
          apiGroups[g].value.variants[a].index = i]

\* The request key stored for each entry of the archive in turn, and the key of
\* its method+path group; <<>> for an entry that was skipped.
RECURSIVE RequestKeys(_)
RequestKeys(n) ==
  IF n = 0 THEN <<>>
  ELSE Append(RequestKeys(n - 1),
              IF (n - 1) \in Registered THEN VariantOf(n - 1).requestKey ELSE <<>>)

RECURSIVE GroupKeys(_)
GroupKeys(n) ==
  IF n = 0 THEN <<>>
  ELSE Append(GroupKeys(n - 1),
              IF (n - 1) \in Registered
              THEN harData[n].request.method \o <<":">> \o EntryPath(n - 1)
              ELSE <<>>)

\* The signature index of the archive with its entries in the order f: the
\* entries that parsed, each set under its request key, one after the other.
RECURSIVE IndexInOrder(_, _, _)
IndexInOrder(f, n, keys) ==
  IF n = 0 THEN <<>>
  ELSE IF keys[f[n]] # <<>>
  THEN MapSet(IndexInOrder(f, n - 1, keys), keys[f[n]], harData[f[n]])
  ELSE IndexInOrder(f, n - 1, keys)

\* The order f keeps the relative order of entries with the same request key.
KeepsEqualKeysInOrder(f, keys) ==
  \A a, b \in 1..Len(keys) :
     (a < b /\ keys[f[a]] # <<>> /\ keys[f[a]] = keys[f[b]]) => f[a] < f[b]

\* The outcome of the request being handled is the outcome of the two lookups
\* in the index map: the entry under the key with body, else the entry under
\* the key without body, else PathKnownNoVariant or PathUnknown.
OutcomeIn(map, groupKeys, bodyText, keyWithBody, keyWithoutBody) ==
  IF bodyText.has /\ bodyText.text # <<>> /\ MapHas(map, keyWithBody)
  THEN /\ outcome.isEntry
       /\ outcome.entry.request = MapGet(map, keyWithBody).request
       /\ outcome.entry.response = MapGet(map, keyWithBody).response
  ELSE IF MapHas(map, keyWithoutBody)
  THEN /\ outcome.isEntry
       /\ outcome.entry.request = MapGet(map, keyWithoutBody).request
       /\ outcome.entry.response = MapGet(map, keyWithoutBody).response
  ELSE /\ ~outcome.isEntry
       /\ outcome.isPathExists
          = (\E i \in 1..Len(groupKeys) : groupKeys[i] = req.method \o <<":">> \o ReqPath)

\* C25 as stated: the outcome of a request is the same for every order of the
\* archive's entries.
C25_OrderIrrelevant ==
  Handled =>
     LET keys == RequestKeys(Len(harData))
         groupKeys == GroupKeys(Len(harData))
         bodyText == ReqBody
         keyWithBody == ReqKeyWithBody
         keyWithoutBody == ReqKeyWithoutBody
     IN \A f \in Orders(Len(harData)) :
           OutcomeIn(IndexInOrder(f, Len(harData), keys), groupKeys, bodyText,
                     keyWithBody, keyWithoutBody)

\* C25 amended: the outcome of a request is the same for every order of the
\* archive's entries that keeps the relative order of the entries with the same
\* signature.
C25_StableOrderIrrelevant ==
  Handled =>
     LET keys == RequestKeys(Len(harData))
         groupKeys == GroupKeys(Len(harData))
         bodyText == ReqBody
         keyWithBody == ReqKeyWithBody
         keyWithoutBody == ReqKeyWithoutBody
     IN \A f \in Orders(Len(harData)) :
           KeepsEqualKeysInOrder(f, keys)
           => OutcomeIn(IndexInOrder(f, Len(harData), keys), groupKeys, bodyText,
                        keyWithBody, keyWithoutBody)

\* A request is matched to the first of two entries with different signatures:
\* in the other order that entry is registered last.
C25_Witness ==
  /\ Handled
  /\ Registered = {0, 1}
  /\ VariantOf(0).requestKey # VariantOf(1).requestKey
  /\ outcome.isEntry
  /\ outcome.entry.index = 0
  /\ harData[1].response # harData[2].response

\* The variants of all groups, as (group, position) pairs.
AllVariants ==
  {<<g, a>> \in (1..Len(apiGroups)) \X (1..MaxEntries) :
     a <= Len(apiGroups[g].value.variants)}

VariantAt(ga) == apiGroups[ga[1]].value.variants[ga[2]]

\* C26: after any prefix of registrations, every variant's request key is a key
\* of requestMap; the entry under a key is the highest-ordinal registered entry
\* with that key and is a variant of the group of its method and path; each
\* group's variants are in increasing ordinal order; and there are as many
\* variants as entries registered so far.
C26_IndexAndGroupsAgree ==
  /\ \A ga \in AllVariants : MapHas(requestMap, VariantAt(ga).requestKey)
  /\ \A k \in 1..Len(requestMap) :
        /\ requestMap[k].value.index \in Registered
        /\ \A ga \in AllVariants :
              VariantAt(ga).requestKey = requestMap[k].key
              => VariantAt(ga).index <= requestMap[k].value.index
        /\ MapHas(apiGroups, requestMap[k].value.method \o <<":">>
                             \o requestMap[k].value.path)
        /\ \E a \in 1..MaxEntries :
              /\ <<CHOOSE g \in 1..Len(apiGroups) :
                     apiGroups[g].key = requestMap[k].value.method \o <<":">>
                                        \o requestMap[k].value.path, a>> \in AllVariants
              /\ LET v == MapGet(apiGroups, requestMap[k].value.method \o <<":">>
                                            \o requestMap[k].value.path).variants[a]
                 IN /\ v.index = requestMap[k].value.index
                    /\ v.requestKey = requestMap[k].key
                    /\ v.response = requestMap[k].value.response
  /\ \A g \in 1..Len(apiGroups) :
        \A a, b \in 1..Len(apiGroups[g].value.variants) :
           a < b => apiGroups[g].value.variants[a].index
                    < apiGroups[g].value.variants[b].index
  /\ Cardinality(AllVariants) = Cardinality(Registered)
  /\ \A i \in Registered : \E ga \in AllVariants : VariantAt(ga).index = i
  /\ Registering => \A i \in Registered : VariantOf(i).requestKey = EntrySignature(i)

\* Two entries of one method and path are registered under different keys: one
\* group of two variants, two keys in the index.
C26_Witness ==
  /\ Registering
  /\ nextIndex = 2
  /\ Len(apiGroups) = 1
  /\ Len(apiGroups[1].value.variants) = 2
  /\ Len(requestMap) = 2

\* The entries processHAREntries has been through, and those of them whose URL
\* parses, with their ordinals in the archive.
Processed == SubSeq(harData, 1, nextIndex)

ParsesUrl(entry) == URLParse(entry.request.url).ok

GoodOrdinals == SelectSeq([k \in 1..nextIndex |-> k - 1], LAMBDA i : ParsesUrl(harData[i + 1]))

\* One iteration of the forEach on an entry whose URL parses, as a function of
\* the two maps: the entry is set under its request key and pushed on its group.
Registration(maps, entry, index, basePath, rawQueryParams, normalizedQueryParams, requestKey) ==
  [requestMap |-> MapSet(maps.requestMap, requestKey,
                         MapValue(entry, index, basePath, rawQueryParams,
                                  normalizedQueryParams)),
   apiGroups |-> GroupsWith(maps.apiGroups, entry.request.method \o <<":">> \o basePath,
                            entry.request.method, basePath,
                            Variant(entry, index, rawQueryParams, normalizedQueryParams,
                                    requestKey))]

\* The maps after processHAREntries has run over the archive made of the
\* entries of the given ordinals only, each keeping its ordinal.
RECURSIVE MapsOfArchive(_)
MapsOfArchive(ordinals) ==
  IF ordinals = <<>> THEN [requestMap |-> <<>>, apiGroups |-> <<>>]
  ELSE LET index == ordinals[Len(ordinals)]
           entry == harData[index + 1]
           parsedUrl == URLParse(entry.request.url)
           rawQueryParams == Slice1(parsedUrl.search)
           normalizedQueryParams == sortQueryString(rawQueryParams)
       IN Registration(MapsOfArchive(SubSeq(ordinals, 1, Len(ordinals) - 1)),
                       entry, index, parsedUrl.pathname, rawQueryParams,
                       normalizedQueryParams,
                       generateRequestKey(entry.request.method, parsedUrl.pathname,
                                          normalizedQueryParams, entry.request.postData))

SetFails(header) ==
  /\ ~Includes(skipHeaders, toLowerCase(header.name))
  /\ ~ValidHeaderName(header.name)

\* The recorded response without the headers whose setting fails.
WithoutFailingHeaders(r) ==
  [r EXCEPT !.headers = SelectSeq(r.headers, LAMBDA h : ~SetFails(h))]

\* C28: when setting a recorded header fails, replay does not throw, every later
\* recorded header that is neither skipped nor failing is on the live response
\* (with its value when it is the last of its name, the empty CORS origin of C14
\* apart), and status, headers and body are those of the replay of the same recording
\* without the failing header: the recorded status and the recorded body.
C28_HeaderFailureCaught ==
  (Replayed /\ \E i \in 1..Len(arg.response.headers) : SetFails(arg.response.headers[i]))
  => /\ ~ret.res.threw
     /\ \A i, j \in 1..Len(arg.response.headers) :
           (/\ SetFails(arg.response.headers[i])
            /\ i < j
            /\ ~Includes(skipHeaders, toLowerCase(arg.response.headers[j].name))
            /\ ~SetFails(arg.response.headers[j]))
           => /\ HeaderHas(ret.res.headers, arg.response.headers[j].name)
              /\ (\A k \in (j + 1)..Len(arg.response.headers) :
                     toLowerCase(arg.response.headers[k].name)
                       # toLowerCase(arg.response.headers[j].name))
                 => \/ HeaderGet(ret.res.headers, arg.response.headers[j].name)
                         = arg.response.headers[j].value
                    \/ /\ toLowerCase(arg.response.headers[j].name)
                            = toLowerCase(AccessControlAllowOrigin)
                       /\ arg.response.headers[j].value = <<>>
     /\ ret.res
          = sendMockedResponse(Found([index |-> 0,
                                      response |-> WithoutFailingHeaders(arg.response)]))
     /\ (arg.response.hasStatus /\ arg.response.status # 0
           => ret.res.status = arg.response.status)
     /\ ret.res.sent \in {"json", "send", "end"}
     /\ (ret.res.sent = "send" => ret.res.body = arg.response.content)
     /\ (ret.res.sent = "end" => arg.response.content = <<>>)
     /\ (ret.res.sent = "json"
           => ret.res.body = JSONStringify(JSONParse(arg.response.content).v))

\* The pseudo-header :status was refused and the Set-Cookie after it was set;
\* the recorded 404 and the recorded text went out.
C28_Witness ==
  /\ Replayed
  /\ Len(arg.response.headers) = 2
  /\ SetFails(arg.response.headers[1])
  /\ arg.response.headers[2].name = <<"S", "e", "t", "-", "C", "o", "o", "k", "i", "e">>
  /\ HeaderHas(ret.res.headers, arg.response.headers[2].name)
  /\ HeaderGet(ret.res.headers, arg.response.headers[2].name) = arg.response.headers[2].value
  /\ arg.response.status = 404
  /\ ret.res.status = 404
  /\ arg.response.content = TextX
  /\ ret.res.body = TextX

\* The recorded header at i is the last one recorded under its name.
LastOfName(r, i) ==
  \A k \in (i + 1)..Len(r.headers) :
     toLowerCase(r.headers[k].name) # toLowerCase(r.headers[i].name)

\* C29: when a name that is not in the denylist is recorded more than once, the
\* live response has one value for it, the last recorded one; and JSON or text
\* output follows the first recorded content-type header.
C29_LastValueFirstContentType ==
  Replayed =>
     /\ \A i, j \in 1..Len(arg.response.headers) :
           (/\ i < j
            /\ toLowerCase(arg.response.headers[i].name)
                 = toLowerCase(arg.response.headers[j].name)
            /\ ~Includes(skipHeaders, toLowerCase(arg.response.headers[j].name))
            /\ LastOfName(arg.response, j))
           => /\ Cardinality({k \in 1..Len(ret.res.headers) :
                                ret.res.headers[k].name
                                  = toLowerCase(arg.response.headers[j].name)}) = 1
              /\ HeaderGet(ret.res.headers, arg.response.headers[j].name)
                   = arg.response.headers[j].value
     /\ (arg.response.content # <<>>
           => (ret.res.sent = "json"
                 <=> (RecordedJsonType(arg.response) /\ JSONParse(arg.response.content).ok)))

\* C30: an OPTIONS request is answered by the CORS middleware with status 200
\* and an empty body; a GET request for one of the four dashboard paths is
\* served by the dashboard routes; every other request reaches handleRequest.
C30_PipelineOrder ==
  res.handler # "none" =>
     IF req.method = OPTIONS
     THEN /\ res.handler = "cors"
          /\ res.status = 200
          /\ res.sent = "end"
          /\ res.body = <<>>
     ELSE IF req.method = GET /\ ReqPath \in DashboardRoutes
     THEN res.handler = "dashboard"
     ELSE Handled

====
